---- MODULE Spec2Model ----
(***************************************************************************)
(* A model of plsdo (github.com/gwatts/plsdo): the gopls protocol client   *)
(* (pkg/gopls), the syntax-tree analyzer (pkg/ast) and the Matcher that    *)
(* correlates definitions with references (pkg/plsdo).                     *)
(*                                                                         *)
(* Go strings are modelled as sequences of one-character strings, so that  *)
(* prefix tests, substring replacement and slicing are computed the way    *)
(* the strings package computes them.                                      *)
(***************************************************************************)
EXTENDS Integers, Sequences, FiniteSets, TLC

(***************************************************************************)
(* Bounds of the model.                                                    *)
(***************************************************************************)
\* calls of Matcher.FindFuncReferences made by the caller
MaxFindCalls == 1
\* calls of Matcher.Close made by the caller
MaxCloseCalls == 2
\* frames the server emits on its own: notifications and requests
MaxUnsolicited == 1
\* length of the location list of a references response
MaxRefs == 2
\* the greatest line and character of a position handed to the analyzer
MaxLine == 9
MaxCharacter == 56
\* requests the server sends of its own accord, numbered from 1
MaxServerRequests == 2
\* calls of ParseFile on one ASTProcessor
MaxParseCalls == 3
\* changes other programs make to the files meanwhile
MaxWrites == 1
\* calls of FindFuncReferences on one Matcher that accumulate
MaxAppendCalls == 2
\* patterns handed to FindFuncDefinitions in one call
MaxPatterns == 2
\* entries of Matcher.refs when sort is called
MaxSortLen == 3
\* goroutines calling getSeq concurrently, and calls they make in all
MaxProcs == 2
MaxSeqCalls == 4

(***************************************************************************)
(* strings                                                                 *)
(***************************************************************************)
\* F(e), with e evaluated once
Once(e, F(_)) == CHOOSE r \in {F(x) : x \in {e}} : TRUE

\* s[from:to] with Go's 0-based, end-exclusive offsets
Slice(s, from, to) == SubSeq(s, from + 1, to)

\* strings.HasPrefix
HasPrefix(s, prefix) ==
    /\ Len(s) >= Len(prefix)
    /\ SubSeq(s, 1, Len(prefix)) = prefix

\* strings.HasSuffix
HasSuffix(s, suffix) ==
    /\ Len(s) >= Len(suffix)
    /\ SubSeq(s, Len(s) - Len(suffix) + 1, Len(s)) = suffix

\* strings.Index: the 0-based offset of the first occurrence of sub, or -1
Index(s, sub) ==
    LET hits == {i \in 0..(Len(s) - Len(sub)) : Slice(s, i, i + Len(sub)) = sub}
    IN  IF hits = {} THEN -1
        ELSE CHOOSE i \in hits : \A j \in hits : i <= j

\* strings.Replace(s, old, new, 1)
ReplaceFirst(s, old, new) ==
    LET i == Index(s, old)
    IN  IF i < 0 THEN s
        ELSE Slice(s, 0, i) \o new \o Slice(s, i + Len(old), Len(s))

Scheme == <<"f","i","l","e",":","/","/">>

\* On the platform modelled filepath.ToSlash is the identity: the separator is "/".
pathToURI(path) == Scheme \o path

uriToPath(uri) == ReplaceFirst(uri, Scheme, <<>>)

(***************************************************************************)
(* The file system the program runs on: the workspace /w (the working      *)
(* directory), a sibling directory /w2 whose name starts with the same     *)
(* characters, and a module cache /m outside the workspace.  Every Go file *)
(* holds the same text.                                                    *)
(***************************************************************************)
Pwd == <<"/","w">>
WsFile == <<"/","w","/","a",".","g","o">>
SibFile == <<"/","w","2","/","a",".","g","o">>
ExtFile == <<"/","m","/","a",".","g","o">>
\* a file of a second package of the workspace, with methods, function
\* literals and nested calls
QFile == <<"/","w","/","q","/","b",".","g","o">>
Files == {WsFile, SibFile, ExtFile, QFile}

\* package p
\* func Bar(){}
\* func Foo(){ Bar() }
\* func Baz(){ Bar(); Bar() }
SrcText ==
    <<"p","a","c","k","a","g","e"," ","p","\n",
      "f","u","n","c"," ","B","a","r","(",")","{","}","\n",
      "f","u","n","c"," ","F","o","o","(",")","{"," ","B","a","r","(",")"," ","}","\n",
      "f","u","n","c"," ","B","a","z","(",")","{"," ","B","a","r","(",")",";"," ",
      "B","a","r","(",")"," ","}","\n">>

\* package q
\* type T struct{}
\* func (t *T) Run(){ f := func(){ Bar(Qux(), 1) }; f() }
\* func (T) Get(){}
\* func (t T) hid(){}
\* func Bar(){}
\* func low(){}
\* var V = func(){ Bar() }
SrcTextQ ==
    <<"p","a","c","k","a","g","e"," ","q","\n">> \o
    <<"t","y","p","e"," ","T"," ","s","t","r","u","c","t","{","}","\n">> \o
    <<"f","u","n","c"," ","(","t"," ","*","T",")"," ","R","u","n","(",")","{"," ","f"," ",":","="," ",
      "f","u","n","c","(",")","{"," ","B","a","r","(","Q","u","x","(",")",","," ","1",")"," ","}",";",
      " ","f","(",")"," ","}","\n">> \o
    <<"f","u","n","c"," ","(","T",")"," ","G","e","t","(",")","{","}","\n">> \o
    <<"f","u","n","c"," ","(","t"," ","T",")"," ","h","i","d","(",")","{","}","\n">> \o
    <<"f","u","n","c"," ","B","a","r","(",")","{","}","\n">> \o
    <<"f","u","n","c"," ","l","o","w","(",")","{","}","\n">> \o
    <<"v","a","r"," ","V"," ","="," ","f","u","n","c","(",")","{"," ","B","a","r","(",")"," ","}","\n">>

\* os.ReadFile
\* a path at which there is no file
NoFile == <<"/", "w", "/", "n", "o", ".", "g", "o">>
FileExists(path) == path \in Files
ReadFile(path) == IF path = QFile THEN SrcTextQ ELSE SrcText

\* The k-th smallest member of a set of numbers
Nth(S, k) == CHOOSE o \in S : Cardinality({q \in S : q < o}) = k - 1

\* The members of a set of numbers, ascending
Ascending(S) == [k \in 1..Cardinality(S) |-> Nth(S, k)]

\* token.File's line table: the offset at which each line starts (the scanner
\* records a line after every newline that is followed by more text).
LineStarts(src) ==
    Ascending({0} \cup {i \in 1..(Len(src) - 1) : src[i] = "\n"})

\* The line table of a parsed file; the parser fills it in once
SrcLines == LineStarts(SrcText)
SrcLinesQ == LineStarts(SrcTextQ)
FileLines(path) == IF path = QFile THEN SrcLinesQ ELSE SrcLines

\* token.File.LineCount
LineCount(path) == Len(FileLines(path))

\* token.Pos of offset 0 of a file.  The processor's FileSet gives every file
\* its own base; positions are only ever compared within one file.
FileBase == 1
NoPos == 0

No == <<>>
Node(kind, from, to, name, namePos) ==
    [kind |-> kind, pos |-> FileBase + from, end |-> FileBase + to,
     name |-> name, namePos |-> FileBase + namePos,
     recvType |-> No, recvName |-> No, nRecv |-> 0]

\* The syntax tree parser.ParseFile builds for SrcText, as the sequence of its
\* nodes in the order ast.Inspect visits them (depth first, parents first).
\* pos and end are the node's Pos() and End().
ParseTree ==
    << Node("File", 0, 69, <<"p">>, 8),
       Node("Ident", 8, 9, <<"p">>, 8),
       Node("FuncDecl", 10, 22, <<"B","a","r">>, 15),
       Node("Ident", 15, 18, <<"B","a","r">>, 15),
       Node("FuncType", 10, 20, No, 10),
       Node("FieldList", 18, 20, No, 18),
       Node("BlockStmt", 20, 22, No, 20),
       Node("FuncDecl", 23, 42, <<"F","o","o">>, 28),
       Node("Ident", 28, 31, <<"F","o","o">>, 28),
       Node("FuncType", 23, 33, No, 23),
       Node("FieldList", 31, 33, No, 31),
       Node("BlockStmt", 33, 42, No, 33),
       Node("ExprStmt", 35, 40, No, 35),
       Node("CallExpr", 35, 40, No, 35),
       Node("Ident", 35, 38, <<"B","a","r">>, 35),
       Node("FuncDecl", 43, 69, <<"B","a","z">>, 48),
       Node("Ident", 48, 51, <<"B","a","z">>, 48),
       Node("FuncType", 43, 53, No, 43),
       Node("FieldList", 51, 53, No, 51),
       Node("BlockStmt", 53, 69, No, 53),
       Node("ExprStmt", 55, 60, No, 55),
       Node("CallExpr", 55, 60, No, 55),
       Node("Ident", 55, 58, <<"B","a","r">>, 55),
       Node("ExprStmt", 62, 67, No, 62),
       Node("CallExpr", 62, 67, No, 62),
       Node("Ident", 62, 65, <<"B","a","r">>, 62) >>

\* a FuncDecl with one receiver field: the type as exprToString prints it,
\* and the name, empty when the receiver has none
Method(node, recvType, recvName) ==
    [node EXCEPT !.recvType = recvType, !.recvName = recvName, !.nRecv = 1]

\* The syntax tree of SrcTextQ
ParseTreeQ ==
    << Node("File", 0, 166, <<"q">>, 8),
       Node("Ident", 8, 9, <<"q">>, 8),
       Node("GenDecl", 10, 25, No, 10),
       Node("TypeSpec", 15, 25, No, 15),
       Node("Ident", 15, 16, <<"T">>, 15),
       Node("StructType", 17, 25, No, 17),
       Node("FieldList", 23, 25, No, 23),
       Method(Node("FuncDecl", 26, 80, <<"R","u","n">>, 38), <<"*","T">>, <<"t">>),
       Node("FieldList", 31, 37, No, 31),
       Node("Field", 32, 36, No, 32),
       Node("Ident", 32, 33, <<"t">>, 32),
       Node("StarExpr", 34, 36, No, 34),
       Node("Ident", 35, 36, <<"T">>, 35),
       Node("Ident", 38, 41, <<"R","u","n">>, 38),
       Node("FuncType", 26, 43, No, 26),
       Node("FieldList", 41, 43, No, 41),
       Node("BlockStmt", 43, 80, No, 43),
       Node("AssignStmt", 45, 73, No, 45),
       Node("Ident", 45, 46, <<"f">>, 45),
       Node("FuncLit", 50, 73, No, 50),
       Node("FuncType", 50, 56, No, 50),
       Node("FieldList", 54, 56, No, 54),
       Node("BlockStmt", 56, 73, No, 56),
       Node("ExprStmt", 58, 71, No, 58),
       Node("CallExpr", 58, 71, No, 58),
       Node("Ident", 58, 61, <<"B","a","r">>, 58),
       Node("CallExpr", 62, 67, No, 62),
       Node("Ident", 62, 65, <<"Q","u","x">>, 62),
       Node("BasicLit", 69, 70, No, 69),
       Node("ExprStmt", 75, 78, No, 75),
       Node("CallExpr", 75, 78, No, 75),
       Node("Ident", 75, 76, <<"f">>, 75),
       Method(Node("FuncDecl", 81, 97, <<"G","e","t">>, 90), <<"T">>, No),
       Node("FieldList", 86, 89, No, 86),
       Node("Field", 87, 88, No, 87),
       Node("Ident", 87, 88, <<"T">>, 87),
       Node("Ident", 90, 93, <<"G","e","t">>, 90),
       Node("FuncType", 81, 95, No, 81),
       Node("FieldList", 93, 95, No, 93),
       Node("BlockStmt", 95, 97, No, 95),
       Method(Node("FuncDecl", 98, 116, <<"h","i","d">>, 109), <<"T">>, <<"t">>),
       Node("FieldList", 103, 108, No, 103),
       Node("Field", 104, 107, No, 104),
       Node("Ident", 104, 105, <<"t">>, 104),
       Node("Ident", 106, 107, <<"T">>, 106),
       Node("Ident", 109, 112, <<"h","i","d">>, 109),
       Node("FuncType", 98, 114, No, 98),
       Node("FieldList", 112, 114, No, 112),
       Node("BlockStmt", 114, 116, No, 114),
       Node("FuncDecl", 117, 129, <<"B","a","r">>, 122),
       Node("Ident", 122, 125, <<"B","a","r">>, 122),
       Node("FuncType", 117, 127, No, 117),
       Node("FieldList", 125, 127, No, 125),
       Node("BlockStmt", 127, 129, No, 127),
       Node("FuncDecl", 130, 142, <<"l","o","w">>, 135),
       Node("Ident", 135, 138, <<"l","o","w">>, 135),
       Node("FuncType", 130, 140, No, 130),
       Node("FieldList", 138, 140, No, 138),
       Node("BlockStmt", 140, 142, No, 140),
       Node("GenDecl", 143, 166, No, 143),
       Node("ValueSpec", 147, 166, No, 147),
       Node("Ident", 147, 148, <<"V">>, 147),
       Node("FuncLit", 151, 166, No, 151),
       Node("FuncType", 151, 157, No, 151),
       Node("FieldList", 155, 157, No, 155),
       Node("BlockStmt", 157, 166, No, 157),
       Node("ExprStmt", 159, 164, No, 159),
       Node("CallExpr", 159, 164, No, 159),
       Node("Ident", 159, 162, <<"B","a","r">>, 159) >>

(***************************************************************************)
(* pkg/ast                                                                 *)
(***************************************************************************)
NoErr == "nil"

\* ParseFile: the cached tree, or the error of reading the file.
ParseFile(path) ==
    IF FileExists(path)
    THEN [err |-> NoErr, file |-> IF path = QFile THEN ParseTreeQ ELSE ParseTree]
    ELSE [err |-> "error reading file", file |-> <<>>]

\* a conversion that takes the nearest line of the file for a line outside it
getPositionClamped(path, line, character) ==
    LET near == IF line < 1 THEN 1
                ELSE IF line > LineCount(path) THEN LineCount(path) ELSE line
    IN  FileBase + FileLines(path)[near] + (character - 1)

\* getPosition converts line and character to token.Pos
getPosition(path, line, character) ==
    IF line < 1 \/ line > LineCount(path) THEN NoPos
    ELSE FileBase + FileLines(path)[line] + (character - 1)

\* fset.Position(p).Offset
Offset(p) == p - FileBase

\* fset.Position(p).Line and .Column
PositionOf(path, p) ==
    LET starts == FileLines(path)
        ln == CHOOSE l \in 1..Len(starts) :
                /\ starts[l] <= Offset(p)
                /\ \A k \in 1..Len(starts) : starts[k] <= Offset(p) => k <= l
    IN  [Line |-> ln, Column |-> Offset(p) - starts[ln] + 1]

\* The callback of ExtractFullCall keeps the last CallExpr it visits whose span
\* holds the position, both ends included.
LastCallAt(file, position) ==
    LET hits == {i \in 1..Len(file) :
                    /\ file[i].kind = "CallExpr"
                    /\ file[i].pos <= position
                    /\ position <= file[i].end}
    IN  IF hits = {} THEN 0
        ELSE CHOOSE i \in hits : \A j \in hits : j <= i

ExtractFullCall(path, line, character) ==
    LET parsed == ParseFile(path)
        src == ReadFile(path)
        position == getPosition(path, line, character)
        target == LastCallAt(parsed.file, position)
        startOffset == Offset(parsed.file[target].pos)
        endOffset == Offset(parsed.file[target].end)
    IN  IF parsed.err # NoErr THEN [err |-> parsed.err, src |-> <<>>]
        ELSE IF position = NoPos THEN [err |-> "invalid position", src |-> <<>>]
        ELSE IF target = 0
            THEN [err |-> "no corresponding call expression found", src |-> <<>>]
        ELSE IF startOffset < 0 \/ endOffset > Len(src) \/ startOffset >= endOffset
            THEN [err |-> "invalid call expression positions", src |-> <<>>]
        ELSE [err |-> NoErr, src |-> Slice(src, startOffset, endOffset)]

\* The callback of GetEnclosingFunctionName stops at the first FuncDecl or
\* FuncLit it visits whose span holds the position.
FirstFuncAt(file, position) ==
    LET hits == {i \in 1..Len(file) :
                    /\ file[i].kind \in {"FuncDecl", "FuncLit"}
                    /\ file[i].pos <= position
                    /\ position <= file[i].end}
    IN  IF hits = {} THEN 0
        ELSE CHOOSE i \in hits : \A j \in hits : i <= j

Anonymous == <<"a","n","o","n","y","m","o","u","s"," ","f","u","n","c","t","i","o","n">>
GlobalScope == <<"g","l","o","b","a","l"," ","s","c","o","p","e">>

GetEnclosingFunctionName(path, line, character) ==
    LET parsed == ParseFile(path)
        position == getPosition(path, line, character)
        found == FirstFuncAt(parsed.file, position)
        fn == parsed.file[found]
        none == [err |-> NoErr, functionName |-> No, receiverType |-> No,
                 receiverName |-> No]
    IN  IF parsed.err # NoErr THEN [none EXCEPT !.err = parsed.err]
        ELSE IF position = NoPos THEN [none EXCEPT !.err = "invalid position"]
        ELSE IF found = 0 THEN [none EXCEPT !.functionName = GlobalScope]
        ELSE IF fn.kind = "FuncDecl"
            THEN [err |-> NoErr, functionName |-> fn.name,
                  receiverType |-> IF fn.nRecv > 0 THEN fn.recvType ELSE No,
                  receiverName |-> IF fn.nRecv > 0 THEN fn.recvName ELSE No]
        ELSE [none EXCEPT !.functionName = Anonymous]

(***************************************************************************)
(* github.com/ryanuber/go-glob, as isFuncMatch uses it                     *)
(***************************************************************************)
Star == <<"*">>

\* strings.Split(s, "*")
SplitStar(s) ==
    LET stars == Ascending({i \in 1..Len(s) : s[i] = "*"})
        n == Len(stars)
    IN  [k \in 1..(n + 1) |->
            SubSeq(s, IF k = 1 THEN 1 ELSE stars[k - 1] + 1,
                      IF k = n + 1 THEN Len(s) ELSE stars[k] - 1)]

\* glob.Glob(pattern, subj)
Glob(pattern, subj) ==
    LET parts == SplitStar(pattern)
        last == Len(parts)
        leadingGlob == HasPrefix(pattern, Star)
        trailingGlob == HasSuffix(pattern, Star)
        \* the loop over parts[0 .. end-1]; rest is what is left of subj,
        \* <<FALSE>> stands for the early "return false"
        RECURSIVE Walk(_, _)
        Walk(i, rest) ==
            IF i >= last THEN <<TRUE, rest>>
            ELSE LET idx == Index(rest, parts[i])
                 IN  IF i = 1 /\ ~leadingGlob /\ idx # 0 THEN <<FALSE, rest>>
                     ELSE IF i > 1 /\ idx < 0 THEN <<FALSE, rest>>
                     ELSE Walk(i + 1, Slice(rest, idx + Len(parts[i]), Len(rest)))
        walked == Walk(1, subj)
    IN  IF pattern = <<>> THEN subj = pattern
        ELSE IF pattern = Star THEN TRUE
        ELSE IF last = 1 THEN subj = pattern
        ELSE /\ walked[1]
             /\ (trailingGlob \/ HasSuffix(walked[2], parts[last]))

(***************************************************************************)
(* pkg/ast: definitions                                                    *)
(***************************************************************************)
Upper == {"A","B","C","D","E","F","G","H","I","J","K","L","M",
          "N","O","P","Q","R","S","T","U","V","W","X","Y","Z"}

\* ast.IsExported
IsExported(name) == name # <<>> /\ name[1] \in Upper

\* extractRecvType: the receiver's type and name, empty unless the
\* declaration has exactly one receiver field
extractRecvType(decl) ==
    IF decl.nRecv # 1 THEN [recvType |-> No, recvName |-> No]
    ELSE [recvType |-> decl.recvType, recvName |-> decl.recvName]

\* strings.TrimPrefix(s, "*")
TrimStar(s) == IF HasPrefix(s, Star) THEN Tail(s) ELSE s

\* strings.Cut(pattern, ".")
CutDot(pattern) ==
    LET i == Index(pattern, <<".">>)
    IN  IF i < 0 THEN [before |-> pattern, after |-> <<>>, found |-> FALSE]
        ELSE [before |-> Slice(pattern, 0, i),
              after |-> Slice(pattern, i + 1, Len(pattern)), found |-> TRUE]

\* one turn of isFuncMatch's loop: does this pattern match the declaration
PatternMatches(decl, pattern) ==
    Once(CutDot(pattern), LAMBDA cut :
        IF cut.found
        THEN /\ Glob(cut.before, TrimStar(extractRecvType(decl).recvType))
             /\ Glob(cut.after, decl.name)
        ELSE Glob(pattern, decl.name))

isFuncMatch(decl, funcPatterns) ==
    \E i \in 1..Len(funcPatterns) : PatternMatches(decl, funcPatterns[i])

\* build.Import: the directory and Go files of a package
PkgWs == "p"
PkgMissing == "missing"
Packages == {PkgWs, PkgMissing}
PkgQ == "p/q"
PkgFiles(pkgPath) ==
    IF pkgPath = PkgWs THEN <<WsFile>>
    ELSE IF pkgPath = PkgQ THEN <<QFile>>
    ELSE <<>>

\* node.Decls of a parsed file: its top-level function declarations, in order
FuncDecls(file) == SelectSeq(file, LAMBDA n : n.kind = "FuncDecl")

\* The Match FindFuncDefinitions appends for a declaration
DefinitionOf(pkgPath, path, decl) ==
    [Pkg |-> pkgPath,
     RecvType |-> extractRecvType(decl).recvType,
     RecvName |-> extractRecvType(decl).recvName,
     FuncName |-> decl.name,
     Filename |-> path,
     OffsetLine |-> PositionOf(path, decl.namePos).Line,
     OffsetCol |-> PositionOf(path, decl.namePos).Column]

\* The Match values FindFuncDefinitions appends for one file
FileDefinitions(pkgPath, path, funcPatterns) ==
    Once(SelectSeq(FuncDecls(ParseFile(path).file),
            LAMBDA decl : IsExported(decl.name) /\ isFuncMatch(decl, funcPatterns)),
         LAMBDA kept :
            [i \in 1..Len(kept) |-> Once(kept[i], LAMBDA decl :
                                        DefinitionOf(pkgPath, path, decl))])

FindFuncDefinitions(pkgPath, funcPatterns) ==
    LET files == PkgFiles(pkgPath)
        RECURSIVE Scan(_, _)
        Scan(i, acc) ==
            IF i > Len(files) THEN [err |-> NoErr, matches |-> acc]
            ELSE IF ParseFile(files[i]).err # NoErr
                THEN [err |-> ParseFile(files[i]).err, matches |-> <<>>]
            ELSE Scan(i + 1, acc \o FileDefinitions(pkgPath, files[i], funcPatterns))
    IN  IF pkgPath \notin {PkgWs, PkgQ}
        THEN [err |-> "cannot find package", matches |-> <<>>]
        ELSE Scan(1, <<>>)

\* ast.Format prints an expression through go/printer, and returns its input
\* when that does not parse.  The call snippets of SrcText are printed as
\* they are written.
Format(source) == source

(***************************************************************************)
(* pkg/gopls: messages                                                     *)
(***************************************************************************)
\* A frame of the server's output, as json.Unmarshal decodes it:
\*   id    the value of its "id" member, NoId when it has none
\*   kind  "result" (has "result"), "error" (has "error"), "notif" (has
\*         "method" and no "id"), "request" (has "method" and "id")
\*   arr   its "result" is a JSON array
\*   items the elements of that array
\*   message  the "message" member of its "error", "" when it has none
\* gopls numbers its requests and echoes the client's numbers, so every id
\* on the stream is a whole number.
NoId == 0
\* the message of the error responses gopls writes here
ErrorMessage == "no identifier found"
Frame(id, kind, arr, items) ==
    [id |-> id, kind |-> kind, arr |-> arr, items |-> items,
     message |-> IF kind = "error" THEN ErrorMessage ELSE ""]

\* An element of a references result: a Location with 0-based positions;
\* wf is FALSE when a member is missing or of the wrong type.
Loc(wf, path, line, from, to) ==
    [wf |-> wf, uri |-> pathToURI(path), sl |-> line, sc |-> from, el |-> line, ec |-> to]

DeclBar == Loc(TRUE, WsFile, 1, 5, 8)
CallFoo == Loc(TRUE, WsFile, 2, 12, 15)
CallBaz1 == Loc(TRUE, WsFile, 3, 12, 15)
CallBaz2 == Loc(TRUE, WsFile, 3, 19, 22)
CallSib == Loc(TRUE, SibFile, 2, 12, 15)
CallExt == Loc(TRUE, ExtFile, 2, 12, 15)
BeyondEnd == Loc(TRUE, WsFile, 7, 0, 3)
Malformed == Loc(FALSE, WsFile, 2, 12, 15)
Locations == {DeclBar, CallFoo, CallSib, CallExt, BeyondEnd, Malformed}

\* What gopls reports for Bar with includeDeclaration: the declaration and
\* the three calls, in file order.
BarReply == <<DeclBar, CallFoo, CallBaz1, CallBaz2>>

RECURSIVE SeqsUpTo(_, _)
SeqsUpTo(S, n) ==
    IF n = 0 THEN {<<>>}
    ELSE LET shorter == SeqsUpTo(S, n - 1)
         IN  shorter \cup {Append(q, x) : q \in shorter, x \in S}

\* The location lists a references response can carry
RefLists == SeqsUpTo(Locations, MaxRefs) \cup {BarReply}
\* The few of them used where the exchange of frames is what is explored
FewLists == {<<CallFoo>>, BarReply}

\* The Match of an element with the positions left as they were decoded
MatchOfZeroBased(ref) ==
    [URI |-> ref.uri,
     Filename |-> uriToPath(ref.uri),
     StartLine |-> ref.sl,
     StartCharacter |-> ref.sc,
     EndLine |-> ref.el,
     EndCharacter |-> ref.ec]

\* The Match parseReferences appends for an element of the result
MatchOf(ref) ==
    [URI |-> ref.uri,
     Filename |-> uriToPath(ref.uri),
     StartLine |-> ref.sl + 1,
     StartCharacter |-> ref.sc + 1,
     EndLine |-> ref.el + 1,
     EndCharacter |-> ref.ec + 1]

\* parseReferences
parseReferences(resp) ==
    IF resp.kind # "result" THEN [err |-> "no references found", matches |-> <<>>]
    ELSE IF ~resp.arr THEN [err |-> "invalid references format", matches |-> <<>>]
    ELSE [err |-> NoErr,
          matches |-> Once(SelectSeq(resp.items, LAMBDA ref : ref.wf), LAMBDA kept :
                        [i \in 1..Len(kept) |-> Once(kept[i], LAMBDA ref : MatchOf(ref))])]

\* getSeq, called by one goroutine
getSeq(s) == s + 1

\* The test of FindReferences's read loop:
\*   id, ok := resp["id"]; ok && int(id.(float64)) == referencesRequestID
ReferencesIdMatchesAny(resp, referencesRequestID) == resp.id # NoId
ReferencesIdMatchesNone(resp, referencesRequestID) == FALSE
ReferencesIdMatches(resp, referencesRequestID) ==
    resp.id # NoId /\ resp.id = referencesRequestID

\* The test of Close's read loop
ShutdownIdMatches(resp, shutdownRequestID) ==
    resp.id # NoId /\ resp.id = shutdownRequestID

(***************************************************************************)
(* pkg/plsdo: the body of FindFuncReferences's loop over matches           *)
(***************************************************************************)
\* One turn: skip: the match is outside the working directory; err: the
\* analyzer failed; otherwise the entry appended to m.refs.
MatchStep(match) ==
    LET enc == GetEnclosingFunctionName(match.Filename, match.StartLine,
                                        match.StartCharacter)
        call == ExtractFullCall(match.Filename, match.StartLine,
                                match.StartCharacter)
        none == [skip |-> FALSE, err |-> NoErr, me |-> <<>>]
    IN  IF ~HasPrefix(match.Filename, Pwd) THEN [none EXCEPT !.skip = TRUE]
        ELSE IF enc.err # NoErr THEN [none EXCEPT !.err = enc.err]
        ELSE IF call.err # NoErr THEN [none EXCEPT !.err = call.err]
        ELSE [none EXCEPT !.me =
                [Filename |-> match.Filename, Line |-> match.StartLine,
                 EncRecvType |-> enc.receiverType, EncRecvName |-> enc.receiverName,
                 EncFuncName |-> enc.functionName, OrgSource |-> call.src,
                 PrettySource |-> Format(call.src)]]

\* The entries of the steps that appended one, in order
Appended(steps) ==
    Once(SelectSeq(steps, LAMBDA step : ~step.skip /\ step.err = NoErr), LAMBDA kept :
        [i \in 1..Len(kept) |-> kept[i].me])

\* The steps of the loop over matches
MatchSteps(matches) ==
    [i \in 1..Len(matches) |-> Once(matches[i], LAMBDA match : MatchStep(match))]

\* The first step, if any, at which the analyzer failed on a match inside the
\* working directory; past the last step if there is none
FirstFailure(steps) ==
    Once({i \in 1..Len(steps) : ~steps[i].skip /\ steps[i].err # NoErr}, LAMBDA failing :
        IF failing = {} THEN Len(steps) + 1 ELSE Nth(failing, 1))

\* A variant that passes over a match the analyzer fails on
ProcessMatchesSkipping(matches, entries) ==
    [err |-> NoErr, refs |-> entries \o Appended(MatchSteps(matches))]

\* A variant that starts from an empty m.refs
ProcessMatchesAfresh(matches, entries) ==
    Once(SubSeq(MatchSteps(matches), 1, Len(matches)), LAMBDA steps :
        Once(FirstFailure(steps), LAMBDA stop :
            [err |-> IF stop > Len(steps) THEN NoErr ELSE steps[stop].err,
             refs |-> Appended(SubSeq(steps, 1, stop - 1))]))

\* The loop over matches: m.refs as it leaves it, and the error it returns.
\* The loop ends at the first match inside the working directory that the
\* analyzer fails on.
ProcessMatches(matches, entries) ==
    Once(SubSeq(MatchSteps(matches), 1, Len(matches)), LAMBDA steps :
        Once(FirstFailure(steps), LAMBDA stop :
            [err |-> IF stop > Len(steps) THEN NoErr ELSE steps[stop].err,
             refs |-> entries \o Appended(SubSeq(steps, 1, stop - 1))]))

\* ---------------------------------------------------------------------------
\* The program's state
\*
\*   m          the *Matcher NewMatcher returned: "unborn", "nil" or "ok"
\*   pls        Matcher.pls: "nil" or "client"
\*   seq        GoplsClient.seq
\*   proc       the gopls process: "none", "up" or "exited"
\*   stdinOpen  the write end of the process's stdin is open
\*   pc         where the calling goroutine stands
\*   await      the id the current read loop waits for
\*   args       the arguments of the last FindFuncReferences
\*   defs       the definitions FindFuncReferences has still to look up
\*   matches    the matches of the last parsed references response
\*   refs       Matcher.refs; refs0 is its value before the last response
\*   ret        what the last finished operation returned
\*   inbox      frames written by the server and not read yet
\*   pending    requests the server has not answered
\*   log        messages sent, frames read, and process calls, in order
\*   panicked   the method in which the goroutine panicked, if any
\*   seqMutex   GoplsClient.seqMutex: 0 when free, else the goroutine holding it
\*   gpc        where each concurrent caller of getSeq stands
\*   gcalls     the calls of getSeq each goroutine has made
\*   gtmp       the value each goroutine last read from c.seq
\*   gseen      how many calls of getSeq had returned when each goroutine
\*              made its last call
\*   returned   the ids getSeq has returned, in order of return, each with
\*              its caller and with the number of calls that had returned
\*              when the call was made
\*   fileMap    ASTProcessor.fileMap: the tree cached for a path, NotCached
\*              for a path that is not a key of the map
\*   disk       the content of each file, Absent for a file that is not there
\*   nReadFile  the calls of os.ReadFile made by ParseFile
\*   nParser    the calls of parser.ParseFile made by ParseFile
\*   nParseFile the calls of ASTProcessor.ParseFile
\*   nWrite     the times a file was written or removed by another program
\* ---------------------------------------------------------------------------
VARIABLES m, pls, seq, proc, stdinOpen, pc, await, args, defs, matches, refs, refs0, ret,
          inbox, pending, log, panicked, nFind, nClose, nNotif, nSrvReq,
          seqMutex, gpc, gcalls, gtmp, gseen, returned,
          fileMap, disk, nReadFile, nParser, nParseFile, nWrite

protoVars == <<m, pls, seq, proc, stdinOpen, pc, await, args, defs, matches, refs, refs0, ret,
               inbox, pending, log, panicked, nFind, nClose, nNotif, nSrvReq>>

seqVars == <<seqMutex, gpc, gcalls, gtmp, gseen, returned>>

\* One ASTProcessor held by a caller of the analyzer: its fileMap, the files
\* it reads, and the calls made on it.  FindFuncReferences makes a processor
\* of its own for each call (ast.NewASTProcessor) and drops it on return, so
\* the steps of the Matcher leave these variables alone.
astVars == <<fileMap, disk, nReadFile, nParser, nParseFile, nWrite>>

vars == <<protoVars, seqVars, astVars>>

\* the paths ParseFile is called with
ParsePaths == {WsFile, QFile, NoFile}

NotCached == <<"not cached">>
Absent == <<"absent">>

\* a text that is not Go source
BadText == <<"p", "a", "c", "k", "a", "g", "e", " ", "(">>

\* the files as the program finds them
DiskAtStart == [path \in ParsePaths |-> IF FileExists(path) THEN ReadFile(path) ELSE Absent]

\* NewASTProcessor: an empty fileMap
InitProcessor ==
    /\ fileMap = [path \in ParsePaths |-> NotCached]
    /\ disk = DiskAtStart
    /\ nReadFile = 0 /\ nParser = 0 /\ nParseFile = 0 /\ nWrite = 0

\* a variant of the lookup that finds nothing
ExistsNever(fm, filePath) == FALSE

\* _, exists := a.fileMap[filePath]
Exists(fm, filePath) == fm[filePath] # NotCached

\* os.ReadFile
OsReadFile(fs, filePath) ==
    IF fs[filePath] = Absent THEN [err |-> "error reading file", src |-> <<>>]
    ELSE [err |-> NoErr, src |-> fs[filePath]]

\* parser.ParseFile on the text read
ParserParseFile(src) ==
    IF src = SrcText THEN [err |-> NoErr, file |-> ParseTree]
    ELSE IF src = SrcTextQ THEN [err |-> NoErr, file |-> ParseTreeQ]
    ELSE [err |-> "error parsing file", file |-> <<>>]

\* ParseFile on a processor whose cache is fm, with the files fs: the error
\* it returns, the cache it leaves, and whether it read and parsed
ParseFileOn(fm, fs, filePath) ==
    IF Exists(fm, filePath)
    THEN [err |-> NoErr, fileMap |-> fm, calls |-> 1, read |-> 0, parsed |-> 0]
    ELSE Once(OsReadFile(fs, filePath), LAMBDA got :
            IF got.err # NoErr
            THEN [err |-> got.err, fileMap |-> fm, calls |-> 1, read |-> 1, parsed |-> 0]
            ELSE Once(ParserParseFile(got.src), LAMBDA tree :
                    IF tree.err # NoErr
                    THEN [err |-> tree.err, fileMap |-> fm, calls |-> 1, read |-> 1,
                          parsed |-> 1]
                    ELSE [err |-> NoErr, fileMap |-> [fm EXCEPT ![filePath] = tree.file],
                          calls |-> 1, read |-> 1, parsed |-> 1]))

\* the loop of FindFuncDefinitions over pkg.GoFiles, as far as it calls
\* a.ParseFile: one call per file, in order, stopping at the first error
RECURSIVE ParseFilesOn(_, _, _)
ParseFilesOn(fm, fs, files) ==
    IF files = <<>>
    THEN [err |-> NoErr, fileMap |-> fm, calls |-> 0, read |-> 0, parsed |-> 0]
    ELSE Once(ParseFileOn(fm, fs, Head(files)), LAMBDA pf :
            IF pf.err # NoErr THEN pf
            ELSE Once(ParseFilesOn(pf.fileMap, fs, Tail(files)), LAMBDA rest :
                    [rest EXCEPT !.calls = @ + pf.calls, !.read = @ + pf.read,
                                 !.parsed = @ + pf.parsed]))

\* what calls of a.ParseFile that come to pf do to the processor
ParseFileCalled(pf) ==
    /\ nParseFile' = nParseFile + pf.calls
    /\ fileMap' = pf.fileMap
    /\ nReadFile' = nReadFile + pf.read
    /\ nParser' = nParser + pf.parsed
    /\ UNCHANGED <<disk, nWrite>>

\* An entry of the log
Ev(ev, by, method, id, kind, want, taken) ==
    [ev |-> ev, by |-> by, method |-> method, id |-> id, kind |-> kind,
     want |-> want, taken |-> taken, line |-> 0, character |-> 0, decl |-> FALSE]

\* sendMessage
Sent(by, method, id) == Ev("send", by, method, id, "", 0, FALSE)

\* readMessage, and whether the caller's loop took the frame as its response
Read(by, resp, want, taken) == Ev("read", by, "", resp.id, resp.kind, want, taken)

PatBar == << <<"B", "a", "r">> >>

PatBa == << <<"B", "a", "*">> >>

PatQux == << <<"Q", "u", "x">> >>

PatternLists == {PatBar, PatBa, PatQux}

NoArgs == [pkgName |-> "", patterns |-> <<>>]

NoRet == [op |-> "", err |-> NoErr]

Returned(op, err) == [op |-> op, err |-> err]

Init ==
    /\ m = "unborn" /\ pls = "nil" /\ seq = 0
    /\ proc = "none" /\ stdinOpen = FALSE
    /\ pc = "idle" /\ await = 0
    /\ args = NoArgs /\ defs = <<>> /\ matches = <<>>
    /\ refs = <<>> /\ refs0 = <<>> /\ ret = NoRet
    /\ inbox = <<>> /\ pending = {} /\ log = <<>>
    /\ panicked = ""
    /\ nFind = 0 /\ nClose = 0 /\ nNotif = 0 /\ nSrvReq = 0
    /\ seqMutex = 0
    /\ gpc = [g \in 1..MaxProcs |-> "idle"]
    /\ gcalls = [g \in 1..MaxProcs |-> 0]
    /\ gtmp = [g \in 1..MaxProcs |-> 0]
    /\ gseen = [g \in 1..MaxProcs |-> 0]
    /\ returned = <<>>
    /\ InitProcessor

\* a write to the server's stdin succeeds while the process is up
CanSend == proc = "up"

\* a read from the server's stdout fails once it has exited and nothing is left
AtEOF == inbox = <<>> /\ proc = "exited"

\* NewMatcher when the gopls process cannot be started
NewMatcherNoServer ==
    /\ pc = "idle" /\ m = "unborn" /\ panicked = ""
    /\ m' = "nil"
    /\ ret' = Returned("NewMatcher", "exec")
    /\ UNCHANGED <<pls, seq, proc, stdinOpen, pc, await, args, defs, matches, refs, refs0,
                   inbox, pending, log, panicked, nFind, nClose, nNotif, nSrvReq>>
    /\ UNCHANGED <<seqVars, astVars>>

\* NewMatcher -> NewGoplsClient up to the call of initialize
NewMatcherStart ==
    /\ pc = "idle" /\ m = "unborn" /\ panicked = ""
    /\ proc' = "up"
    /\ stdinOpen' = TRUE
    /\ seq' = 0
    /\ pc' = "initialize"
    /\ UNCHANGED <<m, pls, await, args, defs, matches, refs, refs0, ret,
                   inbox, pending, log, panicked, nFind, nClose, nNotif, nSrvReq>>
    /\ UNCHANGED <<seqVars, astVars>>

\* initialize up to its readMessage
InitializeSend ==
    /\ pc = "initialize"
    /\ seq' = getSeq(seq)
    /\ IF CanSend
       THEN /\ log' = Append(log, Sent("initialize", "initialize", seq'))
            /\ pending' = pending \cup {[id |-> seq', method |-> "initialize"]}
            /\ pc' = "init_read"
            /\ UNCHANGED <<m, ret>>
       ELSE /\ m' = "nil"
            /\ pc' = "idle"
            /\ ret' = Returned("NewMatcher", "write")
            /\ UNCHANGED <<log, pending>>
    /\ UNCHANGED <<pls, proc, stdinOpen, await, args, defs, matches, refs, refs0,
                   inbox, panicked, nFind, nClose, nNotif, nSrvReq>>
    /\ UNCHANGED <<seqVars, astVars>>

\* initialize: its readMessage and the initialized notification
InitializeRead ==
    /\ pc = "init_read"
    /\ \/ /\ inbox # <<>>
          /\ inbox' = Tail(inbox)
          /\ IF CanSend
             THEN /\ log' = log \o <<Read("initialize", Head(inbox), seq, TRUE),
                                     Sent("initialize", "initialized", NoId)>>
                  /\ pc' = "init_config"
                  /\ UNCHANGED <<m, ret>>
             ELSE /\ log' = Append(log, Read("initialize", Head(inbox), seq, TRUE))
                  /\ m' = "nil"
                  /\ pc' = "idle"
                  /\ ret' = Returned("NewMatcher", "write")
       \/ /\ AtEOF
          /\ m' = "nil"
          /\ pc' = "idle"
          /\ ret' = Returned("NewMatcher", "EOF")
          /\ UNCHANGED <<inbox, log>>
    /\ UNCHANGED <<pls, seq, proc, stdinOpen, await, args, defs, matches, refs, refs0,
                   pending, panicked, nFind, nClose, nNotif, nSrvReq>>
    /\ UNCHANGED <<seqVars, astVars>>

\* initialize, its last statement: the workspace/didChangeConfiguration
\* notification is written and its result is the result of initialize;
\* NewGoplsClient and NewMatcher return the client, or nil and the error
InitializeConfigures ==
    /\ pc = "init_config"
    /\ IF CanSend
       THEN /\ log' = Append(log, Sent("initialize", "workspace/didChangeConfiguration", NoId))
            /\ m' = "ok"
            /\ pls' = "client"
            /\ ret' = Returned("NewMatcher", NoErr)
       ELSE /\ m' = "nil"
            /\ ret' = Returned("NewMatcher", "write")
            /\ UNCHANGED <<pls, log>>
    /\ pc' = "idle"
    /\ UNCHANGED <<seq, proc, stdinOpen, await, args, defs, matches, refs, refs0,
                   inbox, pending, panicked, nFind, nClose, nNotif, nSrvReq>>
    /\ UNCHANGED <<seqVars, astVars>>

\* The textDocument/references request FindReferences sends for a definition
ReferencesRequest(id, def) ==
    [Sent("FindReferences", "textDocument/references", id)
        EXCEPT !.line = def.OffsetLine - 1, !.character = def.OffsetCol - 1, !.decl = TRUE]

\* FindFuncReferences' loop over definitions, from the top of an iteration to
\* the readMessage of FindReferences or to the return
NextDefinition(ds, lg) ==
    IF ds = <<>>
    THEN /\ pc' = "idle"
         /\ await' = 0
         /\ defs' = <<>>
         /\ ret' = Returned("FindFuncReferences", NoErr)
         /\ log' = lg
         /\ UNCHANGED <<seq, pending, panicked>>
    ELSE IF pls = "nil"
    THEN /\ pc' = "dead"
         /\ panicked' = "FindReferences"
         /\ defs' = ds
         /\ log' = lg
         /\ UNCHANGED <<await, seq, pending, ret>>
    ELSE /\ seq' = getSeq(seq)
         /\ IF CanSend
            THEN /\ log' = Append(lg, ReferencesRequest(seq', Head(ds)))
                 /\ pending' = pending \cup {[id |-> seq', method |-> "textDocument/references"]}
                 /\ pc' = "refs_read"
                 /\ await' = seq'
                 /\ defs' = ds
                 /\ UNCHANGED <<ret, panicked>>
            ELSE /\ log' = lg
                 /\ pc' = "idle"
                 /\ await' = 0
                 /\ defs' = <<>>
                 /\ ret' = Returned("FindFuncReferences", "write")
                 /\ UNCHANGED <<pending, panicked>>

\* Matcher.FindFuncReferences up to the first readMessage of FindReferences
FindFuncReferences(pkgName, patterns) ==
    /\ pc = "idle" /\ m # "unborn" /\ panicked = ""
    /\ nFind' = nFind + 1
    /\ args' = [pkgName |-> pkgName, patterns |-> patterns]
    /\ \E found \in {FindFuncDefinitions(pkgName, patterns)} :
          IF found.err # NoErr
          THEN /\ ret' = Returned("FindFuncReferences", found.err)
               /\ UNCHANGED <<pc, await, defs, seq, pending, log, panicked>>
          ELSE IF m = "nil"
          THEN /\ pc' = "dead"
               /\ panicked' = "FindFuncReferences"
               /\ UNCHANGED <<await, defs, seq, pending, log, ret>>
          ELSE NextDefinition(found.matches, log)
    /\ UNCHANGED <<m, pls, proc, stdinOpen, matches, refs, refs0, inbox,
                   nClose, nNotif, nSrvReq>>
    /\ UNCHANGED <<seqVars, astVars>>

\* FindReferences from a readMessage on: the frame is passed over, or it is
\* the response, and then parseReferences, the loop over the matches and the
\* next definition follow
FindReferencesRead ==
    /\ pc = "refs_read"
    /\ \/ /\ inbox # <<>>
          /\ inbox' = Tail(inbox)
          /\ \E resp \in {Head(inbox)} :
                IF ~ReferencesIdMatches(resp, await)
                THEN /\ log' = Append(log, Read("FindReferences", resp, await, FALSE))
                     /\ UNCHANGED <<pc, await, defs, seq, pending, ret, panicked,
                                    matches, refs, refs0>>
                ELSE \E parsed \in {parseReferences(resp)},
                        taken \in {Append(log, Read("FindReferences", resp, await, TRUE))} :
                        IF parsed.err # NoErr
                        THEN /\ log' = taken
                             /\ pc' = "idle"
                             /\ await' = 0
                             /\ defs' = <<>>
                             /\ ret' = Returned("FindFuncReferences", parsed.err)
                             /\ UNCHANGED <<seq, pending, panicked, matches, refs, refs0>>
                        ELSE \E done \in {ProcessMatches(parsed.matches, refs)} :
                                /\ matches' = parsed.matches
                                /\ refs0' = refs
                                /\ refs' = done.refs
                                /\ IF done.err # NoErr
                                   THEN /\ log' = taken
                                        /\ pc' = "idle"
                                        /\ await' = 0
                                        /\ defs' = <<>>
                                        /\ ret' = Returned("FindFuncReferences", done.err)
                                        /\ UNCHANGED <<seq, pending, panicked>>
                                   ELSE NextDefinition(Tail(defs), taken)
       \/ /\ AtEOF
          /\ pc' = "idle"
          /\ await' = 0
          /\ defs' = <<>>
          /\ ret' = Returned("FindFuncReferences", "EOF")
          /\ UNCHANGED <<inbox, log, seq, pending, panicked, matches, refs, refs0>>
    /\ UNCHANGED <<m, pls, proc, stdinOpen, args, nFind, nClose, nNotif, nSrvReq>>
    /\ UNCHANGED <<seqVars, astVars>>

\* Matcher.Close -> GoplsClient.Close up to its first readMessage
Close ==
    /\ pc = "idle" /\ m # "unborn" /\ panicked = ""
    /\ nClose' = nClose + 1
    /\ IF m = "nil"
       THEN /\ pc' = "dead"
            /\ panicked' = "Close"
            /\ UNCHANGED <<pls, seq, await, pending, log, ret>>
       ELSE IF pls = "nil"
       THEN /\ ret' = Returned("Close", NoErr)
            /\ UNCHANGED <<pls, seq, pc, await, pending, log, panicked>>
       ELSE /\ seq' = getSeq(seq)
            /\ IF CanSend
               THEN /\ log' = Append(log, Sent("Close", "shutdown", seq'))
                    /\ pending' = pending \cup {[id |-> seq', method |-> "shutdown"]}
                    /\ pc' = "close_read"
                    /\ await' = seq'
                    /\ UNCHANGED <<pls, ret, panicked>>
               ELSE /\ pls' = "nil"
                    /\ ret' = Returned("Close", "write")
                    /\ UNCHANGED <<pc, await, pending, log, panicked>>
    /\ UNCHANGED <<m, proc, stdinOpen, args, defs, matches, refs, refs0, inbox,
                   nFind, nNotif, nSrvReq>>
    /\ UNCHANGED <<seqVars, astVars>>

\* GoplsClient.Close from a readMessage on, up to cmd.Wait
CloseRead ==
    /\ pc = "close_read"
    /\ \/ /\ inbox # <<>>
          /\ inbox' = Tail(inbox)
          /\ \E resp \in {Head(inbox)} :
                IF ~ShutdownIdMatches(resp, await)
                THEN /\ log' = Append(log, Read("Close", resp, await, FALSE))
                     /\ UNCHANGED <<pc, await, pls, ret, stdinOpen>>
                ELSE IF CanSend
                THEN /\ log' = log \o <<Read("Close", resp, await, TRUE),
                                        Sent("Close", "exit", NoId),
                                        Ev("closeStdin", "Close", "", NoId, "", 0, FALSE)>>
                     /\ stdinOpen' = FALSE
                     /\ pc' = "close_wait"
                     /\ UNCHANGED <<await, pls, ret>>
                ELSE /\ log' = Append(log, Read("Close", resp, await, TRUE))
                     /\ pc' = "idle"
                     /\ await' = 0
                     /\ pls' = "nil"
                     /\ ret' = Returned("Close", "write")
                     /\ UNCHANGED stdinOpen
       \/ /\ AtEOF
          /\ pc' = "idle"
          /\ await' = 0
          /\ pls' = "nil"
          /\ ret' = Returned("Close", "EOF")
          /\ UNCHANGED <<inbox, log, stdinOpen>>
    /\ UNCHANGED <<m, seq, proc, args, defs, matches, refs, refs0, pending, panicked,
                   nFind, nClose, nNotif, nSrvReq>>
    /\ UNCHANGED <<seqVars, astVars>>

\* what c.cmd.Wait() returns: nil when the process ended with status 0, an
\* *exec.ExitError when it ended with another status or by a signal
WaitResults == {NoErr, "exit status"}

\* cmd.Wait returns, and Close with its result
CloseWait ==
    /\ pc = "close_wait"
    /\ proc = "exited"
    /\ log' = Append(log, Ev("wait", "Close", "", NoId, "", 0, FALSE))
    /\ pc' = "idle"
    /\ await' = 0
    /\ pls' = "nil"
    /\ \E err \in WaitResults : ret' = Returned("Close", err)
    /\ UNCHANGED <<m, seq, proc, stdinOpen, args, defs, matches, refs, refs0, inbox, pending,
                   panicked, nFind, nClose, nNotif, nSrvReq>>
    /\ UNCHANGED <<seqVars, astVars>>

\* ---------------------------------------------------------------------------
\* The gopls process at the other end of the pipes
\* ---------------------------------------------------------------------------

\* The frames the server may answer a request with
Answers(req, lists) ==
    {Frame(req.id, "error", FALSE, <<>>)} \cup
    (IF req.method = "textDocument/references"
     THEN {Frame(req.id, "result", TRUE, l) : l \in lists} \cup
          {Frame(req.id, "result", FALSE, <<>>)}
     ELSE {Frame(req.id, "result", FALSE, <<>>)})

serverVarsUnchanged ==
    /\ UNCHANGED <<m, pls, seq, proc, stdinOpen, pc, await, args, defs, matches, refs, refs0,
                   ret, log, panicked, nFind, nClose>>
    /\ UNCHANGED <<seqVars, astVars>>

\* the server answers a request
ServerResponds(lists) ==
    /\ proc = "up"
    /\ \E req \in pending :
          /\ pending' = pending \ {req}
          /\ \E resp \in Answers(req, lists) : inbox' = Append(inbox, resp)
    /\ UNCHANGED <<nNotif, nSrvReq>>
    /\ serverVarsUnchanged

\* the server sends a notification
ServerNotifies ==
    /\ proc = "up"
    /\ nNotif + nSrvReq < MaxUnsolicited
    /\ nNotif' = nNotif + 1
    /\ inbox' = Append(inbox, Frame(NoId, "notif", FALSE, <<>>))
    /\ UNCHANGED <<pending, nSrvReq>>
    /\ serverVarsUnchanged

\* the server sends a request of its own, numbered from 1
ServerRequests ==
    /\ proc = "up"
    /\ nNotif + nSrvReq < MaxUnsolicited
    /\ nSrvReq' = nSrvReq + 1
    /\ inbox' = Append(inbox, Frame(nSrvReq', "request", FALSE, <<>>))
    /\ UNCHANGED <<pending, nNotif>>
    /\ serverVarsUnchanged

\* the server process exits
ServerExits ==
    /\ proc = "up"
    /\ proc' = "exited"
    /\ pending' = {}
    /\ UNCHANGED <<m, pls, seq, stdinOpen, pc, await, args, defs, matches, refs, refs0,
                   ret, inbox, log, panicked, nFind, nClose, nNotif, nSrvReq>>
    /\ UNCHANGED <<seqVars, astVars>>

\* the server process exits once its stdin is closed
ServerExitsOnClose == ~stdinOpen /\ ServerExits

\* ---------------------------------------------------------------------------
\* A caller that uses the Matcher in any order
\* ---------------------------------------------------------------------------
CallerFinds ==
    /\ nFind < MaxFindCalls
    /\ \E pkgName \in Packages, patterns \in PatternLists :
          FindFuncReferences(pkgName, patterns)

CallerCloses == nClose < MaxCloseCalls /\ Close

Next ==
    \/ NewMatcherNoServer
    \/ NewMatcherStart
    \/ InitializeSend
    \/ InitializeRead
    \/ InitializeConfigures
    \/ CallerFinds
    \/ FindReferencesRead
    \/ CallerCloses
    \/ CloseRead
    \/ CloseWait
    \/ ServerResponds({<<CallFoo>>})
    \/ ServerNotifies
    \/ ServerRequests
    \/ ServerExits

Spec == Init /\ [][Next]_vars

\* ---------------------------------------------------------------------------
\* getSeq called by several goroutines on one client, statement by statement
\* ---------------------------------------------------------------------------
Procs == 1..MaxProcs

\* seqMutex.Lock proceeds when nobody holds the mutex
MutexFreeAlways(mu) == TRUE

MutexFree(mu) == mu = 0

\* a client as NewGoplsClient builds it, before its first getSeq
InitSeq ==
    /\ m = "unborn" /\ pls = "nil" /\ seq = 0
    /\ proc = "up" /\ stdinOpen = TRUE
    /\ pc = "initialize" /\ await = 0
    /\ args = NoArgs /\ defs = <<>> /\ matches = <<>>
    /\ refs = <<>> /\ refs0 = <<>> /\ ret = NoRet
    /\ inbox = <<>> /\ pending = {} /\ log = <<>>
    /\ panicked = ""
    /\ nFind = 0 /\ nClose = 0 /\ nNotif = 0 /\ nSrvReq = 0
    /\ seqMutex = 0
    /\ gpc = [g \in Procs |-> "idle"]
    /\ gcalls = [g \in Procs |-> 0]
    /\ gtmp = [g \in Procs |-> 0]
    /\ gseen = [g \in 1..MaxProcs |-> 0]
    /\ returned = <<>>
    /\ InitProcessor

seqOthersUnchanged ==
    /\ UNCHANGED <<m, pls, proc, stdinOpen, pc, await, args, defs, matches, refs, refs0, ret,
                   inbox, pending, log, panicked, nFind, nClose, nNotif, nSrvReq>>
    /\ UNCHANGED astVars

\* the calls of getSeq made so far, by all goroutines
RECURSIVE CallsMade(_)
CallsMade(n) == IF n = 0 THEN 0 ELSE gcalls[n] + CallsMade(n - 1)

\* a goroutine calls getSeq
SeqCall(g) ==
    /\ gpc[g] = "idle"
    /\ CallsMade(MaxProcs) < MaxSeqCalls
    /\ gcalls' = [gcalls EXCEPT ![g] = @ + 1]
    /\ gseen' = [gseen EXCEPT ![g] = Len(returned)]
    /\ gpc' = [gpc EXCEPT ![g] = "lock"]
    /\ UNCHANGED <<seq, seqMutex, gtmp, returned>>
    /\ seqOthersUnchanged

\* c.seqMutex.Lock()
SeqLock(g) ==
    /\ gpc[g] = "lock"
    /\ MutexFree(seqMutex)
    /\ seqMutex' = g
    /\ gpc' = [gpc EXCEPT ![g] = "load"]
    /\ UNCHANGED <<seq, gcalls, gtmp, gseen, returned>>
    /\ seqOthersUnchanged

\* c.seq++, the read
SeqLoad(g) ==
    /\ gpc[g] = "load"
    /\ gtmp' = [gtmp EXCEPT ![g] = seq]
    /\ gpc' = [gpc EXCEPT ![g] = "store"]
    /\ UNCHANGED <<seq, seqMutex, gcalls, gseen, returned>>
    /\ seqOthersUnchanged

\* c.seq++, the write
SeqStore(g) ==
    /\ gpc[g] = "store"
    /\ seq' = gtmp[g] + 1
    /\ gpc' = [gpc EXCEPT ![g] = "result"]
    /\ UNCHANGED <<seqMutex, gcalls, gtmp, gseen, returned>>
    /\ seqOthersUnchanged

\* return c.seq, the evaluation of the result
SeqResult(g) ==
    /\ gpc[g] = "result"
    /\ gtmp' = [gtmp EXCEPT ![g] = seq]
    /\ gpc' = [gpc EXCEPT ![g] = "unlock"]
    /\ UNCHANGED <<seq, seqMutex, gcalls, gseen, returned>>
    /\ seqOthersUnchanged

\* the deferred c.seqMutex.Unlock(), run before the function returns
SeqUnlock(g) ==
    /\ gpc[g] = "unlock"
    /\ seqMutex' = IF seqMutex = g THEN 0 ELSE seqMutex
    /\ gpc' = [gpc EXCEPT ![g] = "return"]
    /\ UNCHANGED <<seq, gcalls, gtmp, gseen, returned>>
    /\ seqOthersUnchanged

\* the return to the caller, after the mutex was released
SeqReturn(g) ==
    /\ gpc[g] = "return"
    /\ returned' = Append(returned, [g |-> g, id |-> gtmp[g], after |-> gseen[g]])
    /\ gpc' = [gpc EXCEPT ![g] = "idle"]
    /\ UNCHANGED <<seq, seqMutex, gcalls, gtmp, gseen>>
    /\ seqOthersUnchanged

NextSeq ==
    \E g \in Procs :
        \/ SeqCall(g)
        \/ SeqLock(g)
        \/ SeqLoad(g)
        \/ SeqStore(g)
        \/ SeqResult(g)
        \/ SeqUnlock(g)
        \/ SeqReturn(g)

SpecSeq == InitSeq /\ [][NextSeq]_vars

\* ---------------------------------------------------------------------------
\* Properties
\* ---------------------------------------------------------------------------
Entries == 1..Len(log)

IsSend(i, method) == log[i].ev = "send" /\ log[i].method = method

IsRead(i, by) == log[i].ev = "read" /\ log[i].by = by

\* the frame read at i is a response carrying the id its reader waits for
BearsAwaitedId(i) ==
    log[i].id # NoId /\ log[i].id = log[i].want /\ log[i].kind \in {"result", "error"}

\* C1: FindReferences takes as its response only a frame whose id is the id
\* of the references request it sent last; a notification or a frame with
\* another id is read and passed over, and while the server is up the loop
\* goes on reading after it.
C1_ResponseMatchedById ==
    /\ \A i \in Entries :
          IsRead(i, "FindReferences") =>
              /\ log[i].taken <=> (log[i].id # NoId /\ log[i].id = log[i].want)
              /\ \E j \in 1..(i - 1) :
                    /\ IsSend(j, "textDocument/references")
                    /\ log[j].id = log[i].want
                    /\ \A k \in (j + 1)..(i - 1) : ~IsSend(k, "textDocument/references")
    /\ \A i \in Entries :
          (/\ IsRead(i, "FindReferences") /\ ~log[i].taken /\ proc = "up"
           /\ \A j \in (i + 1)..Len(log) : log[j].by # "FindReferences") =>
              pc = "refs_read"

\* a notification and then the response were read by one FindReferences
C1_Witness ==
    \E i, j \in Entries :
        /\ i < j
        /\ IsRead(i, "FindReferences") /\ log[i].kind = "notif" /\ ~log[i].taken
        /\ IsRead(j, "FindReferences") /\ log[j].taken /\ log[j].want = log[i].want
        /\ ret = Returned("FindFuncReferences", NoErr)

\* C2: the initialized notification is sent only after initialize has read a
\* response carrying the id of the initialize request.
C2_InitializedAfterMatchingResponse ==
    \A i \in Entries :
        IsSend(i, "initialized") =>
            \E j \in 1..(i - 1) : IsRead(j, "initialize") /\ BearsAwaitedId(j)

\* The steps of Close in their order, with the frame it takes told by its id
\* alone: shutdown is sent, frames are read until one with the shutdown id,
\* then exit is sent, then stdin is closed, then the process is waited for;
\* frames with other ids are passed over.
CloseOrderById ==
    \A i \in Entries :
        /\ IsRead(i, "Close") =>
              /\ log[i].taken <=> (log[i].id # NoId /\ log[i].id = log[i].want)
              /\ \E j \in 1..(i - 1) :
                    /\ IsSend(j, "shutdown") /\ log[j].id = log[i].want
                    /\ \A k \in (j + 1)..(i - 1) : IsRead(k, "Close") /\ ~log[k].taken
        /\ IsSend(i, "exit") =>
              /\ i > 1
              /\ IsRead(i - 1, "Close") /\ log[i - 1].taken
              /\ log[i - 1].id = log[i - 1].want
        /\ log[i].ev = "closeStdin" => i > 1 /\ IsSend(i - 1, "exit")
        /\ log[i].ev = "wait" => i > 1 /\ log[i - 1].ev = "closeStdin"

\* C3: Close sends shutdown, reads frames until the response whose id is the
\* id of the shutdown request, only then sends exit, then closes stdin, then
\* waits; exit is never sent before that response was read, and frames with
\* other ids are passed over.
C3_CloseOrder ==
    /\ CloseOrderById
    /\ \A i \in Entries :
          IsSend(i, "exit") =>
              \E j \in 1..(i - 1) :
                  /\ IsRead(j, "Close") /\ BearsAwaitedId(j)
                  /\ \E k \in 1..(j - 1) : IsSend(k, "shutdown") /\ log[k].id = log[j].id

\* C4: Close on a nil or closed Matcher sends nothing and does not crash,
\* and shutdown is sent at most once in a session.
C4_CloseIsNoOpWhenNilOrClosed ==
    /\ panicked # "Close"
    /\ Cardinality({i \in Entries : IsSend(i, "shutdown")}) <= 1

\* C5: a references request is sent only between the end of the handshake
\* and the start of Close, and FindFuncReferences after Close does not crash.
C5_ReferencesOnlyWhileReady ==
    /\ panicked # "FindReferences"
    /\ \A i \in Entries :
          IsSend(i, "textDocument/references") =>
              /\ \E j \in 1..(i - 1) : IsSend(j, "workspace/didChangeConfiguration")
              /\ \A j \in 1..(i - 1) : ~IsSend(j, "shutdown")

\* C6, as stated: whatever the interleaving of its callers, getSeq never
\* returns the same id twice, and each id it returns is greater than all it
\* returned before.
C6_IdsStrictlyIncreasing ==
    \A i, j \in 1..Len(returned) :
        i < j => returned[i].id < returned[j].id

\* C6, for calls that do not overlap: getSeq never returns the same id
\* twice, and each id it returns is greater than every id returned by a call
\* that had returned when this call was made.
C6_IdsDistinctAndIncreasingAcrossCalls ==
    \A j \in 1..Len(returned) :
        /\ \A i \in 1..Len(returned) : i # j => returned[i].id # returned[j].id
        /\ \A i \in 1..returned[j].after : returned[i].id < returned[j].id

\* both goroutines obtained ids, a call was made after another had
\* returned, and one goroutine waits for the mutex the other holds
C6_Witness ==
    /\ Len(returned) >= 2
    /\ \E i, j \in 1..Len(returned) : returned[i].g # returned[j].g
    /\ \E j \in 1..Len(returned) : returned[j].after >= 1
    /\ \E g \in Procs : gpc[g] = "lock" /\ seqMutex \notin {0, g}

IsRequest(i) == log[i].ev = "send" /\ log[i].id # NoId

\* C7: a request is sent only when the response of every earlier request
\* has been read.
C7_AtMostOneOutstanding ==
    \A i, j \in Entries :
        (j < i /\ IsRequest(j) /\ IsRequest(i)) =>
            \E k \in (j + 1)..(i - 1) :
                /\ log[k].ev = "read"
                /\ log[k].id = log[j].id
                /\ log[k].kind \in {"result", "error"}

\* path is dir or lies below it
UnderDir(path, dir) == path = dir \/ HasPrefix(path, dir \o <<"/">>)

\* C8: no entry of refs names a file outside the working directory.
C8_RefsInsideWorkspace ==
    \A i \in 1..Len(refs) : UnderDir(refs[i].Filename, Pwd)

\* the error of the analyzer on a match, NoErr if it has none
PositionalError(match) ==
    LET enc == GetEnclosingFunctionName(match.Filename, match.StartLine,
                                        match.StartCharacter)
        call == ExtractFullCall(match.Filename, match.StartLine, match.StartCharacter)
    IN  IF enc.err # NoErr THEN enc.err ELSE call.err

\* the matches of the last response that survive the filter and on which the
\* analyzer fails
\* FindFuncReferences has returned; the command may have exited on its error
Ended == pc \in {"idle", "osExit"}

FailingMatches ==
    {i \in 1..Len(matches) :
        HasPrefix(matches[i].Filename, Pwd) /\ PositionalError(matches[i]) # NoErr}

\* C9: when the analyzer fails on a surviving reference of a response,
\* FindFuncReferences returns the error of the first such reference, and
\* refs has grown by the surviving references before it and by none after.
C9_PositionalFailureIsHardError ==
    FailingMatches # {} =>
        \E i \in FailingMatches :
            /\ \A j \in FailingMatches : i <= j
            /\ Ended
            /\ ret = Returned("FindFuncReferences", PositionalError(matches[i]))
            /\ Len(refs) = Len(refs0) +
                    Cardinality({j \in 1..(i - 1) : HasPrefix(matches[j].Filename, Pwd)})
            /\ SubSeq(refs, 1, Len(refs0)) = refs0

\* the analyzer failed on a reference followed by one it has no trouble with
C9_Witness ==
    \E i \in FailingMatches :
        /\ i < Len(matches)
        /\ HasPrefix(matches[i + 1].Filename, Pwd)
        /\ PositionalError(matches[i + 1]) = NoErr
        /\ ret.op = "FindFuncReferences" /\ ret.err # NoErr

\* C10: for Foo calling Bar once and Baz calling it twice, and the pattern
\* Bar, with the server reporting the declaration and the three calls,
\* FindFuncReferences succeeds with three entries, under Foo, Baz and Baz,
\* each with the source Bar().
C10_EndToEndBar ==
    (/\ args = [pkgName |-> PkgWs, patterns |-> PatBar]
     /\ matches = [i \in 1..Len(BarReply) |-> MatchOf(BarReply[i])]
     /\ pc = "idle"
     /\ ret.op = "FindFuncReferences") =>
        /\ ret.err = NoErr
        /\ Len(refs) = 3
        /\ [i \in 1..3 |-> refs[i].EncFuncName] =
               << <<"F", "o", "o">>, <<"B", "a", "z">>, <<"B", "a", "z">> >>
        /\ \A i \in 1..3 : refs[i].OrgSource = <<"B", "a", "r", "(", ")">>

\* ---------------------------------------------------------------------------
\* Matcher.sort on its own: a Matcher holding any entries, sorted any number
\* of times
\* ---------------------------------------------------------------------------

\* the byte value of a character
Byte(c) ==
    CASE c = "\n" -> 10 [] c = " " -> 32 [] c = "(" -> 40 [] c = ")" -> 41
      [] c = "*" -> 42 [] c = "." -> 46 [] c = "/" -> 47 [] c = "2" -> 50
      [] c = ";" -> 59 [] c = "B" -> 66 [] c = "F" -> 70 [] c = "Q" -> 81
      [] c = "a" -> 97 [] c = "b" -> 98 [] c = "g" -> 103 [] c = "m" -> 109
      [] c = "o" -> 111 [] c = "r" -> 114 [] c = "u" -> 117 [] c = "w" -> 119
      [] c = "x" -> 120 [] c = "z" -> 122 [] c = "{" -> 123 [] c = "}" -> 125

\* cmp.Compare on integers
CompareInt(x, y) == IF x < y THEN -1 ELSE IF x > y THEN 1 ELSE 0

\* strings.Compare: byte-wise lexicographic
CompareString(a, b) ==
    LET differ == {i \in 1..Len(a) : i <= Len(b) /\ a[i] # b[i]}
    IN  IF differ = {} THEN CompareInt(Len(a), Len(b))
        ELSE Once(Nth(differ, 1), LAMBDA i : CompareInt(Byte(a[i]), Byte(b[i])))

\* a comparison that looks at the file name only
CompareFilenameOnly(a, b) == CompareString(a.Filename, b.Filename)

\* the comparison function sort hands to slices.SortStableFunc
CompareEntries(a, b) ==
    IF CompareString(a.Filename, b.Filename) # 0
    THEN CompareString(a.Filename, b.Filename)
    ELSE CompareInt(a.Line, b.Line)

\* slices.SortStableFunc: x is inserted behind the entries it is not less than
InsertStable(sorted, x) ==
    LET after == {i \in 1..Len(sorted) : CompareEntries(x, sorted[i]) < 0}
        at == IF after = {} THEN Len(sorted) + 1 ELSE Nth(after, 1)
    IN  SubSeq(sorted, 1, at - 1) \o <<x>> \o SubSeq(sorted, at, Len(sorted))

RECURSIVE SortStable(_)
SortStable(entries) ==
    IF entries = <<>> THEN <<>>
    ELSE InsertStable(SortStable(SubSeq(entries, 1, Len(entries) - 1)),
                      entries[Len(entries)])

AGo == <<"a", ".", "g", "o">>

BGo == <<"b", ".", "g", "o">>

\* a matchEntry of a call of Bar
Entry(filename, line, encFuncName) ==
    [Filename |-> filename, Line |-> line,
     EncRecvType |-> <<>>, EncRecvName |-> <<>>, EncFuncName |-> encFuncName,
     OrgSource |-> <<"B", "a", "r", "(", ")">>,
     PrettySource |-> <<"B", "a", "r", "(", ")">>]

SortEntries ==
    {Entry(f, l, e) : f \in {AGo, BGo}, l \in {1, 2, 5},
                      e \in {<<"F", "o", "o">>, <<"B", "a", "z">>}}

\* a Matcher holding any entries
InitSort ==
    /\ m = "ok" /\ pls = "nil" /\ seq = 0
    /\ proc = "none" /\ stdinOpen = FALSE
    /\ pc = "idle" /\ await = 0
    /\ args = NoArgs /\ defs = <<>> /\ matches = <<>>
    /\ refs \in SeqsUpTo(SortEntries, MaxSortLen)
    /\ refs0 = <<>> /\ ret = NoRet
    /\ inbox = <<>> /\ pending = {} /\ log = <<>>
    /\ panicked = ""
    /\ nFind = 0 /\ nClose = 0 /\ nNotif = 0 /\ nSrvReq = 0
    /\ seqMutex = 0
    /\ gpc = [g \in Procs |-> "idle"]
    /\ gcalls = [g \in Procs |-> 0]
    /\ gtmp = [g \in Procs |-> 0]
    /\ gseen = [g \in 1..MaxProcs |-> 0]
    /\ returned = <<>>
    /\ InitProcessor

\* Matcher.sort; refs0 keeps the entries as they were before the first sort
sort ==
    /\ pc = "idle" /\ m = "ok"
    /\ refs' = SortStable(refs)
    /\ refs0' = IF ret.op = "sort" THEN refs0 ELSE refs
    /\ ret' = Returned("sort", NoErr)
    /\ UNCHANGED <<m, pls, seq, proc, stdinOpen, pc, await, args, defs, matches,
                   inbox, pending, log, panicked, nFind, nClose, nNotif, nSrvReq>>
    /\ UNCHANGED <<seqVars, astVars>>

NextSort == sort

SpecSort == InitSort /\ [][NextSort]_vars

\* the entries of refs are in ascending order of file name, then line
InOrder(entries) ==
    \A i, j \in 1..Len(entries) :
        i < j =>
            \/ CompareString(entries[i].Filename, entries[j].Filename) < 0
            \/ /\ entries[i].Filename = entries[j].Filename
               /\ entries[i].Line <= entries[j].Line

\* the ways of placing the entries of one sequence in another of that length
Placements(n) ==
    {p \in [1..n -> 1..n] : \A i, j \in 1..n : i # j => p[i] # p[j]}

\* after is before rearranged, entries of equal file and line keeping the
\* order they had
StablePermutation(before, after) ==
    /\ Len(after) = Len(before)
    /\ \E p \in Placements(Len(before)) :
          /\ \A i \in 1..Len(after) : after[i] = before[p[i]]
          /\ \A i, j \in 1..Len(after) :
                (/\ i < j
                 /\ after[i].Filename = after[j].Filename
                 /\ after[i].Line = after[j].Line) => p[i] < p[j]

\* C11: after sort the entries are those from before, in ascending order of
\* file name and then line, entries of equal file and line in the order they
\* had; sorting what is sorted changes nothing; b.go:1, a.go:5, a.go:2
\* become a.go:2, a.go:5, b.go:1.
C11_SortIsStableAndIdempotent ==
    ret.op = "sort" =>
        /\ InOrder(refs)
        /\ StablePermutation(refs0, refs)
        /\ SortStable(refs) = refs
        /\ (\E e \in {<<"F", "o", "o">>} :
                refs0 = <<Entry(BGo, 1, e), Entry(AGo, 5, e), Entry(AGo, 2, e)>>)
              => [i \in 1..3 |-> <<refs[i].Filename, refs[i].Line>>] =
                     << <<AGo, 2>>, <<AGo, 5>>, <<BGo, 1>> >>

\* b.go:1, a.go:5, a.go:2 were sorted
C11_Witness ==
    /\ ret.op = "sort"
    /\ [i \in 1..Len(refs0) |-> <<refs0[i].Filename, refs0[i].Line>>] =
           << <<BGo, 1>>, <<AGo, 5>>, <<AGo, 2>> >>
    /\ refs # refs0

\* entries of equal file and line, told apart by their enclosing function,
\* were sorted together with an entry that had to move in front of them
C11_WitnessTie ==
    /\ ret.op = "sort"
    /\ Len(refs0) = 3
    /\ refs0[1].Filename = refs0[2].Filename /\ refs0[1].Line = refs0[2].Line
    /\ refs0[1] # refs0[2]
    /\ CompareEntries(refs0[3], refs0[1]) < 0

\* ---------------------------------------------------------------------------
\* The analyzer on its own: GetEnclosingFunctionName and ExtractFullCall
\* called with any file, line and character
\* ---------------------------------------------------------------------------

Queries ==
    [path : {WsFile, QFile, NoFile}, line : (0 - 1)..MaxLine, character : 0..MaxCharacter]

\* what a call of the analyzer returned
Answer(op, err, functionName, receiverType, receiverName, src) ==
    [op |-> op, err |-> err, functionName |-> functionName,
     receiverType |-> receiverType, receiverName |-> receiverName, src |-> src]

InitAst ==
    /\ m = "unborn" /\ pls = "nil" /\ seq = 0
    /\ proc = "none" /\ stdinOpen = FALSE
    /\ pc = "idle" /\ await = 0
    /\ args \in Queries
    /\ defs = <<>> /\ matches = <<>>
    /\ refs = <<>> /\ refs0 = <<>> /\ ret = NoRet
    /\ inbox = <<>> /\ pending = {} /\ log = <<>>
    /\ panicked = ""
    /\ nFind = 0 /\ nClose = 0 /\ nNotif = 0 /\ nSrvReq = 0
    /\ seqMutex = 0
    /\ gpc = [g \in Procs |-> "idle"]
    /\ gcalls = [g \in Procs |-> 0]
    /\ gtmp = [g \in Procs |-> 0]
    /\ gseen = [g \in 1..MaxProcs |-> 0]
    /\ returned = <<>>
    /\ InitProcessor

\* a call leaves everything but its result alone
onlyRetChanges ==
    /\ UNCHANGED <<m, pls, seq, proc, stdinOpen, pc, await, args, defs, matches, refs, refs0,
                   inbox, pending, log, panicked, nFind, nClose, nNotif, nSrvReq>>
    /\ UNCHANGED seqVars

\* ap.GetEnclosingFunctionName(path, line, character); it begins with
\* a.ParseFile(path)
CallGetEnclosingFunctionName ==
    /\ nParseFile < MaxParseCalls
    /\ \E pf \in {ParseFileOn(fileMap, disk, args.path)} : ParseFileCalled(pf)
    /\ \E r \in {GetEnclosingFunctionName(args.path, args.line, args.character)} :
          ret' = Answer("GetEnclosingFunctionName", r.err, r.functionName,
                        r.receiverType, r.receiverName, <<>>)
    /\ onlyRetChanges

\* ap.ExtractFullCall(path, line, character); it begins with
\* a.ParseFile(path)
CallExtractFullCall ==
    /\ nParseFile < MaxParseCalls
    /\ \E pf \in {ParseFileOn(fileMap, disk, args.path)} : ParseFileCalled(pf)
    /\ \E r \in {ExtractFullCall(args.path, args.line, args.character)} :
          ret' = Answer("ExtractFullCall", r.err, <<>>, <<>>, <<>>, r.src)
    /\ onlyRetChanges

NextAst == CallGetEnclosingFunctionName \/ CallExtractFullCall

SpecAst == InitAst /\ [][NextAst]_vars

\* the lines of a file's text, counted by its newlines
TextLines(path) == Cardinality({i \in 1..Len(ReadFile(path)) : ReadFile(path)[i] = "\n"})

\* the offset in its file of the queried position, when the query names a
\* character of the text of a line of an existing file, the newline that
\* ends the line excluded; -1 otherwise
QueriedOffset ==
    IF /\ FileExists(args.path)
       /\ args.line \in 1..TextLines(args.path)
       /\ args.character >= 1
       /\ FileLines(args.path)[args.line] + args.character <
              (IF args.line < TextLines(args.path)
               THEN FileLines(args.path)[args.line + 1]
               ELSE Len(ReadFile(args.path)))
    THEN FileLines(args.path)[args.line] + args.character - 1
    ELSE 0 - 1

\* the nodes of the given kinds whose text holds the offset
NodesAround(path, kinds, offset) ==
    {i \in 1..Len(ParseFile(path).file) :
        /\ ParseFile(path).file[i].kind \in kinds
        /\ Offset(ParseFile(path).file[i].pos) <= offset
        /\ offset < Offset(ParseFile(path).file[i].end)}

\* of nodes that hold one offset, the one inside all the others
Innermost(path, around) ==
    ParseFile(path).file[CHOOSE i \in around : \A j \in around :
        ParseFile(path).file[j].pos <= ParseFile(path).file[i].pos /\
        ParseFile(path).file[i].end <= ParseFile(path).file[j].end]

\* C12: GetEnclosingFunctionName reports the innermost function around the
\* position: the anonymous-function marker inside a function literal, also
\* one written inside a named function; the name and receiver of the named
\* function otherwise; global scope and no receiver outside every function.
C12_EnclosingIsInnermost ==
    (ret.op = "GetEnclosingFunctionName" /\ QueriedOffset >= 0) =>
        LET around == NodesAround(args.path, {"FuncDecl", "FuncLit"}, QueriedOffset)
            inner == Innermost(args.path, around)
        IN  /\ ret.err = NoErr
            /\ IF around = {}
               THEN ret.functionName = GlobalScope /\ ret.receiverType = <<>>
               ELSE IF inner.kind = "FuncLit"
               THEN ret.functionName = Anonymous
               ELSE /\ ret.functionName = inner.name
                    /\ ret.receiverType = inner.recvType
                    /\ ret.receiverName = inner.recvName

\* C13: for a position inside a call expression, ExtractFullCall returns the
\* text of the innermost call expression that holds the position.
C13_InnermostCallText ==
    (ret.op = "ExtractFullCall" /\ QueriedOffset >= 0) =>
        LET around == NodesAround(args.path, {"CallExpr"}, QueriedOffset)
            inner == Innermost(args.path, around)
        IN  around # {} =>
                /\ ret.err = NoErr
                /\ ret.src = Slice(ReadFile(args.path), Offset(inner.pos), Offset(inner.end))

\* C16: with a line below 1 or beyond the last line of the file, both
\* GetEnclosingFunctionName and ExtractFullCall return an error, and no
\* context and no snippet.
C16_LineOutsideFileIsAnError ==
    (/\ ret.op \in {"GetEnclosingFunctionName", "ExtractFullCall"}
     /\ FileExists(args.path)
     /\ (args.line < 1 \/ args.line > TextLines(args.path))) =>
        /\ ret.err # NoErr
        /\ ret.functionName = <<>> /\ ret.receiverType = <<>> /\ ret.receiverName = <<>>
        /\ ret.src = <<>>

\* ExtractFullCall was asked for the line after the last one of a file
C16_Witness ==
    /\ ret.op = "ExtractFullCall"
    /\ args.path = QFile /\ args.line = TextLines(QFile) + 1
    /\ ret.err = "invalid position"

\* GetEnclosingFunctionName was asked for line 0
C16_WitnessLineZero ==
    /\ ret.op = "GetEnclosingFunctionName"
    /\ args.path = WsFile /\ args.line = 0
    /\ ret.err = "invalid position"

\* ---------------------------------------------------------------------------
\* FindFuncDefinitions on its own, called with any package and patterns
\* ---------------------------------------------------------------------------
Patterns ==
    { <<"B", "a", "r">>, <<"B", "a", "*">>, <<"*">>, <<"l", "o", "w">>,
      <<"T", ".", "R", "u", "n">>, <<"*", ".", "R", "u", "n">>, <<"T", ".", "*">>,
      <<"*", "T", ".", "G", "e", "t">>, <<"U", ".", "G", "e", "t">>,
      <<"T", ".", "h", "i", "d">>, <<"*", ".", "B", "a", "r">>, <<".", "B", "a", "r">> }

InitDefs ==
    /\ m = "unborn" /\ pls = "nil" /\ seq = 0
    /\ proc = "none" /\ stdinOpen = FALSE
    /\ pc = "idle" /\ await = 0
    /\ args \in [pkgName : {PkgWs, PkgQ, PkgMissing},
                 patterns : SeqsUpTo(Patterns, MaxPatterns)]
    /\ defs = <<>> /\ matches = <<>>
    /\ refs = <<>> /\ refs0 = <<>> /\ ret = NoRet
    /\ inbox = <<>> /\ pending = {} /\ log = <<>>
    /\ panicked = ""
    /\ nFind = 0 /\ nClose = 0 /\ nNotif = 0 /\ nSrvReq = 0
    /\ seqMutex = 0
    /\ gpc = [g \in Procs |-> "idle"]
    /\ gcalls = [g \in Procs |-> 0]
    /\ gtmp = [g \in Procs |-> 0]
    /\ gseen = [g \in 1..MaxProcs |-> 0]
    /\ returned = <<>>
    /\ InitProcessor

\* ap.FindFuncDefinitions(pkgName, patterns...); defs holds the matches
CallFindFuncDefinitions ==
    /\ nParseFile + Len(PkgFiles(args.pkgName)) <= MaxParseCalls
    /\ \E found \in {FindFuncDefinitions(args.pkgName, args.patterns)} :
          /\ defs' = found.matches
          /\ ret' = Returned("FindFuncDefinitions", found.err)
    /\ \E pf \in {ParseFilesOn(fileMap, disk, PkgFiles(args.pkgName))} : ParseFileCalled(pf)
    /\ UNCHANGED <<m, pls, seq, proc, stdinOpen, pc, await, args, matches, refs, refs0,
                   inbox, pending, log, panicked, nFind, nClose, nNotif, nSrvReq>>
    /\ UNCHANGED seqVars

NextDefs == CallFindFuncDefinitions

SpecDefs == InitDefs /\ [][NextDefs]_vars

\* C14: with a single pattern that contains a ".", FindFuncDefinitions
\* returns no declaration without a receiver.
C14_NoReceiverNeverMatchesQualified ==
    (/\ ret.op = "FindFuncDefinitions"
     /\ Len(args.patterns) = 1
     /\ \E i \in 1..Len(args.patterns[1]) : args.patterns[1][i] = ".") =>
        \A i \in 1..Len(defs) : defs[i].RecvType # <<>>

\* a glob in which "*" stands for any run of characters
RECURSIVE GlobMatches(_, _)
GlobMatches(pattern, subj) ==
    IF pattern = <<>> THEN subj = <<>>
    ELSE IF Head(pattern) = "*"
    THEN \E k \in 0..Len(subj) :
            GlobMatches(Tail(pattern), SubSeq(subj, k + 1, Len(subj)))
    ELSE /\ subj # <<>>
         /\ Head(subj) = Head(pattern)
         /\ GlobMatches(Tail(pattern), Tail(subj))

\* the declaration has a receiver whose type, the pointer marker dropped,
\* matches the part of the pattern before its first ".", and a name that
\* matches the rest; or the pattern has no "." and the name matches it
DeclMatchesPattern(decl, pattern) ==
    LET dots == {i \in 1..Len(pattern) : pattern[i] = "."}
        dot == Nth(dots, 1)
        recv == IF decl.recvType # <<>> /\ Head(decl.recvType) = "*"
                THEN Tail(decl.recvType) ELSE decl.recvType
    IN  IF dots = {} THEN GlobMatches(pattern, decl.name)
        ELSE /\ decl.nRecv = 1
             /\ GlobMatches(SubSeq(pattern, 1, dot - 1), recv)
             /\ GlobMatches(SubSeq(pattern, dot + 1, Len(pattern)), decl.name)

\* the function declarations of the package's file that are exported and
\* that one of the patterns matches
ExpectedDeclarations(pkgName, patterns) ==
    SelectSeq(FuncDecls(ParseFile(PkgFiles(pkgName)[1]).file),
              LAMBDA decl :
                 /\ decl.name[1] \in Upper
                 /\ \E i \in 1..Len(patterns) : DeclMatchesPattern(decl, patterns[i]))

\* C15: FindFuncDefinitions returns a declaration if and only if it is
\* exported and one of the patterns matches it; a pattern Type.Method
\* matches a declaration whose receiver type, pointer marker dropped,
\* matches Type and whose name matches Method.
C15_IncludedIffExportedAndMatched ==
    (ret.op = "FindFuncDefinitions" /\ args.pkgName \in {PkgWs, PkgQ}) =>
        /\ ret.err = NoErr
        /\ [i \in 1..Len(defs) |-> <<defs[i].FuncName, defs[i].RecvType>>] =
           [i \in 1..Len(ExpectedDeclarations(args.pkgName, args.patterns)) |->
               <<ExpectedDeclarations(args.pkgName, args.patterns)[i].name,
                 ExpectedDeclarations(args.pkgName, args.patterns)[i].recvType>>]

\* the entries a step adds to the log
NewEntries == {k \in (Len(log) + 1)..Len(log') : TRUE}

\* the step reads the response FindReferences waits for, and it has a list
TakesReferences ==
    /\ pc = "refs_read" /\ inbox # <<>>
    /\ \E k \in NewEntries : log'[k].ev = "read" /\ log'[k].taken
    /\ Head(inbox).kind = "result" /\ Head(inbox).arr

\* C17: a references request carries the definition's line and column less
\* one; every match decoded from the response has the start and end line
\* and character of its location plus one; and a location at the position
\* the request carried comes back as the definition's own line and column.
C17_PositionsConvertedOncePerDirection ==
    [][/\ \A k \in NewEntries :
             (log'[k].ev = "send" /\ log'[k].method = "textDocument/references") =>
                /\ log'[k].line + 1 = Head(defs').OffsetLine
                /\ log'[k].character + 1 = Head(defs').OffsetCol
       /\ TakesReferences =>
             LET items == SelectSeq(Head(inbox).items, LAMBDA ref : ref.wf)
                 req == log[CHOOSE k \in 1..Len(log) :
                                log[k].ev = "send" /\ log[k].id = await]
             IN  /\ Len(matches') = Len(items)
                 /\ \A i \in 1..Len(items) :
                       /\ matches'[i].StartLine = items[i].sl + 1
                       /\ matches'[i].StartCharacter = items[i].sc + 1
                       /\ matches'[i].EndLine = items[i].el + 1
                       /\ matches'[i].EndCharacter = items[i].ec + 1
                       /\ (items[i].sl = req.line /\ items[i].sc = req.character) =>
                             /\ matches'[i].StartLine = Head(defs).OffsetLine
                             /\ matches'[i].StartCharacter = Head(defs).OffsetCol]_vars

\* the server reported the position it was asked about, and the match
\* decoded from it stands at the definition's 1-based position
C17_Witness ==
    /\ \E k \in 1..Len(log) :
          /\ log[k].ev = "send" /\ log[k].method = "textDocument/references"
          /\ log[k].line = 1 /\ log[k].character = 5
    /\ \E i \in 1..Len(matches) :
          /\ matches[i].Filename = WsFile
          /\ matches[i].StartLine = 2 /\ matches[i].StartCharacter = 6
          /\ matches[i].EndCharacter = 9

\* C18: when the frame FindReferences takes as its response carries an
\* error, FindFuncReferences ends there and the error it returns is the
\* server's message.
C18_ServerErrorSurfaced ==
    \A k \in Entries :
        (/\ k = Len(log)
         /\ log[k].ev = "read" /\ log[k].by = "FindReferences"
         /\ log[k].taken /\ log[k].kind = "error") =>
            /\ Ended
            /\ ret = Returned("FindFuncReferences", ErrorMessage)

\* ---------------------------------------------------------------------------
\* cmd/refs.go: the Run function of the refs command, to the end of the
\* program: NewMatcher, FindFuncReferences, output, the deferred Close.  pc
\* is "osExit" once cobra.CheckErr or the default branch has called
\* os.Exit(1): deferred calls are not run then.
\* ---------------------------------------------------------------------------
RunFinds ==
    /\ m = "ok" /\ nFind = 0
    /\ \E pkgName \in Packages, patterns \in PatternLists :
          FindFuncReferences(pkgName, patterns)

Formats == {"json", "print", "other"}

\* cobra.CheckErr(err) with a non-nil error, after NewMatcher,
\* FindFuncReferences or Json; with -debug the nil *Matcher of a failed
\* NewMatcher is dereferenced first
CheckErrExits ==
    /\ pc = "idle" /\ panicked = "" /\ nClose = 0
    /\ ret.op \in {"NewMatcher", "FindFuncReferences", "Json"}
    /\ ret.err # NoErr
    /\ \E debug \in BOOLEAN :
          IF ret.op = "NewMatcher" /\ debug
          THEN pc' = "dead" /\ panicked' = "refs"
          ELSE pc' = "osExit" /\ UNCHANGED panicked
    /\ UNCHANGED <<m, pls, seq, proc, stdinOpen, await, args, defs, matches, refs, refs0,
                   ret, inbox, pending, log, nFind, nClose, nNotif, nSrvReq>>
    /\ UNCHANGED <<seqVars, astVars>>

\* the switch on the output format: Json and PrettyPrint sort m.refs first;
\* Encode fails when standard output cannot be written
RunOutputs ==
    /\ pc = "idle" /\ panicked = ""
    /\ ret = Returned("FindFuncReferences", NoErr)
    /\ \E format \in Formats :
          IF format = "json"
          THEN /\ refs' = SortStable(refs)
               /\ \E err \in IF refs = <<>> THEN {NoErr} ELSE {NoErr, "write"} :
                     ret' = Returned("Json", err)
               /\ UNCHANGED pc
          ELSE IF format = "print"
          THEN /\ refs' = SortStable(refs)
               /\ ret' = Returned("PrettyPrint", NoErr)
               /\ UNCHANGED pc
          ELSE /\ pc' = "osExit"
               /\ ret' = Returned("refs", "invalid mode")
               /\ UNCHANGED refs
    /\ UNCHANGED <<m, pls, seq, proc, stdinOpen, await, args, defs, matches, refs0,
                   inbox, pending, log, panicked, nFind, nClose, nNotif, nSrvReq>>
    /\ UNCHANGED <<seqVars, astVars>>

\* Run returns after the output and the deferred m.Close() is called
RunCloses ==
    /\ nClose = 0
    /\ ret \in {Returned("Json", NoErr), Returned("PrettyPrint", NoErr)}
    /\ Close

NextRefs ==
    \/ NewMatcherNoServer
    \/ NewMatcherStart
    \/ InitializeSend
    \/ InitializeRead
    \/ InitializeConfigures
    \/ CheckErrExits
    \/ RunFinds
    \/ FindReferencesRead
    \/ RunOutputs
    \/ RunCloses
    \/ CloseRead
    \/ CloseWait
    \/ ServerResponds(RefLists)
    \/ ServerExitsOnClose

SpecRefs == Init /\ [][NextRefs]_vars

\* ---------------------------------------------------------------------------
\* The refs command with a server that may exit at any time
\* ---------------------------------------------------------------------------
NextCmd ==
    \/ NewMatcherNoServer
    \/ NewMatcherStart
    \/ InitializeSend
    \/ InitializeRead
    \/ InitializeConfigures
    \/ CheckErrExits
    \/ RunFinds
    \/ FindReferencesRead
    \/ RunOutputs
    \/ RunCloses
    \/ CloseRead
    \/ CloseWait
    \/ ServerResponds(FewLists \cup {<<>>})
    \/ ServerExits

SpecCmd == Init /\ [][NextCmd]_vars

\* C19: when the program has ended through a failed step after the gopls
\* process was started, Close has sent its shutdown request.
C19_TeardownOnErrorPath ==
    (pc = "osExit" /\ proc # "none" /\ ret.op \in {"NewMatcher", "FindFuncReferences", "Json"}) =>
        \E k \in Entries : log[k].by = "Close" /\ log[k].method = "shutdown"

\* ---------------------------------------------------------------------------
\* One Matcher on which FindFuncReferences is called more than once
\* ---------------------------------------------------------------------------
\* what the server lists: one call, the same call twice, a call outside the
\* working directory before one inside, a position past the end of its file
\* between two calls
AppendLists ==
    {<<CallFoo>>, <<CallFoo, CallFoo>>, <<CallExt, CallBaz1>>,
     <<CallFoo, BeyondEnd, CallBaz1>>}

FindsAgain ==
    /\ m = "ok" /\ nFind < MaxAppendCalls
    /\ \E pkgName \in Packages, patterns \in PatternLists :
          FindFuncReferences(pkgName, patterns)

NextAppend ==
    \/ NewMatcherStart
    \/ InitializeSend
    \/ InitializeRead
    \/ InitializeConfigures
    \/ FindsAgain
    \/ FindReferencesRead
    \/ ServerResponds(AppendLists)

SpecAppend == Init /\ [][NextAppend]_vars

\* C20: every step leaves the entries m.refs held in place and unchanged at
\* its front; the step that takes a references response adds, behind them,
\* one entry for each listed location that passes the working-directory
\* filter, in order, repeated locations included: all of them when the
\* analyzer fails on none, those before the first failure otherwise.
C20_OnlyAppends ==
    [][/\ Len(refs') >= Len(refs)
       /\ SubSeq(refs', 1, Len(refs)) = refs
       /\ TakesReferences =>
             LET items == SelectSeq(Head(inbox).items, LAMBDA ref : ref.wf)
                 surviving == SelectSeq(items, LAMBDA ref :
                                  HasPrefix(uriToPath(ref.uri), Pwd))
                 added == SubSeq(refs', Len(refs) + 1, Len(refs'))
                 failed == pc' = "idle" /\ ret'.err # NoErr
             IN  /\ Len(added) <= Len(surviving)
                 /\ ~failed => Len(added) = Len(surviving)
                 /\ \A i \in 1..Len(added) :
                       /\ added[i].Filename = uriToPath(surviving[i].uri)
                       /\ added[i].Line = surviving[i].sl + 1
       /\ ~TakesReferences => refs' = refs]_vars

\* a second call has failed part-way: the two equal entries of the first
\* call are there, and behind them the entry the second call added before
\* it failed, equal to them
C20_Witness ==
    /\ nFind = 2 /\ pc = "idle"
    /\ ret.op = "FindFuncReferences" /\ ret.err # NoErr
    /\ Len(refs) = 3
    /\ refs[1] = refs[2] /\ refs[2] = refs[3]

\* ---------------------------------------------------------------------------
\* ParseFile on one ASTProcessor, while the files may change on disk
\* ---------------------------------------------------------------------------
InitParse ==
    /\ m = "unborn" /\ pls = "nil" /\ seq = 0
    /\ proc = "none" /\ stdinOpen = FALSE
    /\ pc = "idle" /\ await = 0
    /\ args = NoArgs /\ defs = <<>> /\ matches = <<>>
    /\ refs = <<>> /\ refs0 = <<>> /\ ret = NoRet
    /\ inbox = <<>> /\ pending = {} /\ log = <<>>
    /\ panicked = ""
    /\ nFind = 0 /\ nClose = 0 /\ nNotif = 0 /\ nSrvReq = 0
    /\ seqMutex = 0
    /\ gpc = [g \in Procs |-> "idle"]
    /\ gcalls = [g \in Procs |-> 0]
    /\ gtmp = [g \in Procs |-> 0]
    /\ gseen = [g \in 1..MaxProcs |-> 0]
    /\ returned = <<>>
    /\ InitProcessor

parseOthersUnchanged ==
    /\ UNCHANGED <<m, pls, seq, proc, stdinOpen, pc, await, defs, matches, refs, refs0,
                   inbox, pending, log, panicked, nFind, nClose, nNotif, nSrvReq>>
    /\ UNCHANGED seqVars

\* a.ParseFile(filePath)
CallParseFile(filePath) ==
    /\ nParseFile < MaxParseCalls
    /\ args' = [path |-> filePath]
    /\ \E pf \in {ParseFileOn(fileMap, disk, filePath)} :
          /\ ParseFileCalled(pf)
          /\ ret' = Returned("ParseFile", pf.err)
    /\ parseOthersUnchanged

CallsParseFile == \E filePath \in ParsePaths : CallParseFile(filePath)

\* another program writes or removes a file
FileChanges ==
    /\ nWrite < MaxWrites
    /\ nWrite' = nWrite + 1
    /\ \E path \in ParsePaths, text \in {Absent, SrcText, SrcTextQ, BadText} :
          /\ text # disk[path]
          /\ disk' = [disk EXCEPT ![path] = text]
    /\ UNCHANGED <<args, ret, fileMap, nReadFile, nParser, nParseFile>>
    /\ parseOthersUnchanged

NextParse == CallsParseFile \/ FileChanges

SpecParse == InitParse /\ [][NextParse]_vars

\* C21: a ParseFile of a path that has a cached tree returns no error,
\* reads no file, parses nothing and leaves the whole cache as it was; a
\* ParseFile that returns an error leaves the cache as it was; a path has a
\* cached tree only through a ParseFile of it that returned no error, so
\* nothing else changes the cache either.
C21_ParseFileIdempotent ==
    [][/\ nParseFile' = nParseFile => fileMap' = fileMap
       /\ nParseFile' # nParseFile =>
             /\ Exists(fileMap, args'.path) =>
                   /\ ret' = Returned("ParseFile", NoErr)
                   /\ nReadFile' = nReadFile /\ nParser' = nParser
                   /\ fileMap' = fileMap
             /\ ret'.err # NoErr => fileMap' = fileMap
             /\ \A path \in ParsePaths :
                   fileMap'[path] # fileMap[path] =>
                      /\ path = args'.path
                      /\ ret'.err = NoErr
                      /\ fileMap[path] = NotCached]_vars

\* a.go was parsed, then replaced on disk by a text that does not parse,
\* then parsed again: one read, one parse, no error, and the first tree
C21_Witness ==
    /\ nParseFile = 2 /\ nReadFile = 1 /\ nParser = 1 /\ nWrite = 1
    /\ args = [path |-> WsFile]
    /\ ret = Returned("ParseFile", NoErr)
    /\ disk[WsFile] = BadText
    /\ fileMap[WsFile] = ParseTree

\* ---------------------------------------------------------------------------
\* A server that sends requests of its own (workspace/configuration,
\* client/registerCapability, window/workDoneProgress/create), numbered
\* from 1 like the client's
\* ---------------------------------------------------------------------------
ServerAsks ==
    /\ proc = "up"
    /\ nSrvReq < MaxServerRequests
    /\ nSrvReq' = nSrvReq + 1
    /\ inbox' = Append(inbox, Frame(nSrvReq', "request", FALSE, <<>>))
    /\ UNCHANGED <<pending, nNotif>>
    /\ serverVarsUnchanged

NextAsks ==
    \/ NewMatcherStart
    \/ InitializeSend
    \/ InitializeRead
    \/ InitializeConfigures
    \/ CallerFinds
    \/ FindReferencesRead
    \/ CallerCloses
    \/ CloseRead
    \/ CloseWait
    \/ ServerResponds(FewLists)
    \/ ServerAsks
    \/ ServerExitsOnClose

SpecAsks == Init /\ [][NextAsks]_vars

\* C22: no frame that is a request of the server is taken by FindReferences
\* or by Close as the response it waits for.
C22_ServerRequestNeverTaken ==
    \A k \in Entries :
        (log[k].ev = "read" /\ log[k].by \in {"FindReferences", "Close"} /\ log[k].taken) =>
            log[k].kind # "request"

\* ---------------------------------------------------------------------------
\* Termination of the client's calls.  The calling goroutine takes its next
\* step whenever it can: it is the only goroutine and a read of the pipe
\* returns once a frame or the end of the stream is there.  gopls exits once
\* its stdin is closed.  Whether the server answers is not assumed here.
\* ---------------------------------------------------------------------------
\* a caller that looks references up and then closes the Matcher, once;
\* the pattern Ba* has two definitions, so that each FindFuncReferences
\* makes two calls of FindReferences
FindsBeforeClose ==
    /\ m = "ok" /\ nClose = 0 /\ nFind < MaxFindCalls
    /\ FindFuncReferences(PkgWs, PatBa)

ClosesOnce == m = "ok" /\ nClose = 0 /\ Close

NextLive ==
    \/ NewMatcherStart
    \/ InitializeSend
    \/ InitializeRead
    \/ InitializeConfigures
    \/ FindsBeforeClose
    \/ FindReferencesRead
    \/ ClosesOnce
    \/ CloseRead
    \/ CloseWait
    \/ ServerResponds({<<CallFoo>>})
    \/ ServerNotifies
    \/ ServerExits

\* the next step of the calling goroutine inside a call of the client
ClientStep ==
    \/ InitializeSend
    \/ InitializeRead
    \/ InitializeConfigures
    \/ FindReferencesRead
    \/ CloseRead
    \/ CloseWait

ClientRuns == WF_vars(ClientStep)

SpecLive == Init /\ [][NextLive]_vars /\ ClientRuns /\ WF_vars(ServerExitsOnClose)

\* the calls, while they have not returned; FindFuncReferences makes one
\* call of FindReferences after the other, so that it returns exactly when
\* each of them does
InNewGoplsClient == pc \in {"initialize", "init_read", "init_config"}
InFindReferences == pc = "refs_read"
InClose == pc \in {"close_read", "close_wait"}

\* the stream is open and holds no frame with the awaited id
Starved ==
    /\ proc = "up"
    /\ \A i \in 1..Len(inbox) : inbox[i].id # await

\* the server answers every request it has received
ServerAnswers == []<>(pending = {})

\* C23: when the server answers every request, NewGoplsClient, every
\* FindReferences and Close return, that is, the client is again and again
\* outside each of them; and a call that never returns is, from some time
\* on, waiting on an open stream that holds no frame with the id it awaits.
C23_CallsReturn ==
    /\ ServerAnswers =>
          /\ []<>~InNewGoplsClient
          /\ []<>~InFindReferences
          /\ []<>~InClose
    /\ <>[]InNewGoplsClient => <>[](pc = "init_read" /\ proc = "up" /\ inbox = <<>>)
    /\ <>[]InFindReferences => <>[]Starved
    /\ <>[]InClose => <>[](pc = "close_read" /\ Starved)

\* FindReferences has passed over a notification, taken its response and
\* returned, and Close has returned after it
C23_Witness ==
    /\ pc = "idle" /\ ret = Returned("Close", NoErr)
    /\ \E i, j \in Entries :
          /\ i < j
          /\ log[i].ev = "read" /\ log[i].by = "FindReferences"
          /\ ~log[i].taken /\ log[i].kind = "notif"
          /\ log[j].ev = "read" /\ log[j].by = "FindReferences" /\ log[j].taken
====
